---- MODULE Spec2Model ----
(***************************************************************************)
(* A model of the stream pipeline lifecycle engine of mpdstreaming        *)
(* (src/app.py, class MPDToHLSStreamer): the strategy selector, the        *)
(* process supervisor with its monitor tasks, the failure classifier and   *)
(* retry policy, and the two registries sessions / active_streams.         *)
(*                                                                         *)
(* Text is modelled as a sequence of characters.  An ASCII character is    *)
(* the one-character string itself; a non-ASCII character is written       *)
(* "u<codepoint>".  Substring tests and str.lower() are computed on these  *)
(* sequences.                                                              *)
(***************************************************************************)
EXTENDS Integers, Sequences, FiniteSets, TLC

(***************************************************************************)
(* Text helpers: Python's str.lower(), `in`, f-string integer formatting.  *)
(***************************************************************************)
UpperChars ==
    <<"A","B","C","D","E","F","G","H","I","J","K","L","M",
      "N","O","P","Q","R","S","T","U","V","W","X","Y","Z">>

LowerChars ==
    <<"a","b","c","d","e","f","g","h","i","j","k","l","m",
      "n","o","p","q","r","s","t","u","v","w","x","y","z">>

LowerChar(c) ==
    IF \E i \in 1..Len(UpperChars) : UpperChars[i] = c
    THEN LowerChars[CHOOSE i \in 1..Len(UpperChars) : UpperChars[i] = c]
    ELSE c

Lower(s) ==
    [i \in 1..Len(s) |-> LowerChar(s[i])]

Contains(pat, s) ==
    \E i \in 1..(Len(s) - Len(pat) + 1) : SubSeq(s, i, i + Len(pat) - 1) = pat

ContainsAny(pats, s) ==
    \E k \in 1..Len(pats) : Contains(pats[k], s)

DigitChars ==
    <<"0","1","2","3","4","5","6","7","8","9">>

RECURSIVE NatToStr(_)
NatToStr(n) ==
    IF n < 10 THEN <<DigitChars[n + 1]>>
    ELSE NatToStr(n \div 10) \o <<DigitChars[(n % 10) + 1]>>

IntToStr(n) ==
    IF n < 0 THEN <<"-">> \o NatToStr(0 - n) ELSE NatToStr(n)

(***************************************************************************)
(* The texts of app.py.                                                    *)
(***************************************************************************)
Msg ==
    [ \* the message text of app.py:340
     ConnReset |->
       <<"u7f51","u7edc","u8fde","u63a5","u88ab","u91cd","u7f6e","uff0c","u53ef","u80fd","u662f","u6e90","u670d","u52a1","u5668","u95ee","u9898","u6216","u7f51","u7edc","u4e0d","u7a33","u5b9a">>,
     \* the message text of app.py:342
     ConnRefused |->
       <<"u8fde","u63a5","u88ab","u62d2","u7edd","uff0c","u6e90","u670d","u52a1","u5668","u53ef","u80fd","u4e0d","u53ef","u8fbe">>,
     \* the message text of app.py:344
     Timeout |->
       <<"u8fde","u63a5","u8d85","u65f6","uff0c","u7f51","u7edc","u5ef6","u8fdf","u8fc7","u9ad8","u6216","u6e90","u670d","u52a1","u5668","u54cd","u5e94","u6162">>,
     \* the message text of app.py:346
     Forbidden |->
       <<"u8bbf","u95ee","u88ab","u7981","u6b62","uff0c","u53ef","u80fd","u9700","u8981","u8ba4","u8bc1","u6216","I","P","u88ab","u5c01">>,
     \* the message text of app.py:348
     NotFound |->
       <<"u8d44","u6e90","u4e0d","u5b58","u5728","uff0c","U","R","L","u53ef","u80fd","u5df2","u5931","u6548">>,
     \* the message text of app.py:350
     ServerError |->
       <<"u6e90","u670d","u52a1","u5668","u5185","u90e8","u9519","u8bef">>,
     \* the message text of app.py:354
     Tls |->
       <<"S","S","L","/","T","L","S","u63e1","u624b","u5931","u8d25","uff0c","u53ef","u80fd","u662f","u8bc1","u4e66","u95ee","u9898">>,
     \* the message text of app.py:358
     Corrupt |->
       <<"u6570","u636e","u635f","u574f","u6216","u683c","u5f0f","u4e0d","u652f","u6301">>,
     \* the message text of app.py:360
     NoDecoder |->
       <<"u7f3a","u5c11","u89e3","u7801","u5668","u6216","u683c","u5f0f","u4e0d","u652f","u6301">>,
     \* the message text of app.py:364
     Decryption |->
       <<"u89e3","u5bc6","u5931","u8d25","uff0c","u5bc6","u94a5","u53ef","u80fd","u4e0d","u6b63","u786e">>,
     \* the message text of app.py:368
     Permission |->
       <<"u6587","u4ef6","u6743","u9650","u9519","u8bef">>,
     \* the message text of app.py:370
     DiskFull |->
       <<"u78c1","u76d8","u7a7a","u95f4","u4e0d","u8db3">>,
     \* the message text of app.py:334
     ExitedPrefix |->
       <<"u8fdb","u7a0b","u5f02","u5e38","u9000","u51fa"," ","(","u4ee3","u7801",":"," ">>,
     \* the message text of app.py:372
     UnknownPrefix |->
       <<"u672a","u77e5","u9519","u8bef"," ","(","u4ee3","u7801",":"," ">>,
     \* the message text of app.py:708
     PipeDecryptExit |->
       <<"u89e3","u5bc6","u8fdb","u7a0b","u9000","u51fa"," ","(","u4ee3","u7801",":"," ">>,
     \* the message text of app.py:711
     PipeDecryptExitNoText |->
       <<"u89e3","u5bc6","u8fdb","u7a0b","u5f02","u5e38","u9000","u51fa"," ","(","u4ee3","u7801",":"," ">>,
     \* the message text of app.py:716
     PipeFfmpegExit |->
       <<"F","F","m","p","e","g","u8fdb","u7a0b","u9000","u51fa"," ","(","u4ee3","u7801",":"," ">>,
     \* the message text of app.py:719
     PipeFfmpegExitNoText |->
       <<"F","F","m","p","e","g","u8fdb","u7a0b","u5f02","u5e38","u9000","u51fa"," ","(","u4ee3","u7801",":"," ">>,
     \* the message text of app.py:424
     NoConnect |->
       <<"u65e0","u6cd5","u8fde","u63a5","u5230","u6d41","U","R","L",":"," ">>,
     \* '[Errno 2] No such file or directory': str(e) of the exception Popen
     \* raises when the executable is missing
     NoSuchFile |->
       <<"[","E","r","r","n","o"," ","2","]"," ","N","o"," ","s","u","c","h"," ","f","i","l","e"," ","o","r"," ","d","i","r","e","c","t","o","r","y">>]

\* The patterns _analyze_ffmpeg_error looks for in the lower-cased output
\* (app.py:339-370); code_403 is the pattern '403'.
P ==
    [connection_reset_by_peer |-> <<"c","o","n","n","e","c","t","i","o","n"," ","r","e","s","e","t"," ","b","y"," ","p","e","e","r">>,
     connection_refused |-> <<"c","o","n","n","e","c","t","i","o","n"," ","r","e","f","u","s","e","d">>,
     timeout |-> <<"t","i","m","e","o","u","t">>,
     timed_out |-> <<"t","i","m","e","d"," ","o","u","t">>,
     code_403 |-> <<"4","0","3">>,
     forbidden |-> <<"f","o","r","b","i","d","d","e","n">>,
     code_404 |-> <<"4","0","4">>,
     not_found |-> <<"n","o","t"," ","f","o","u","n","d">>,
     code_500 |-> <<"5","0","0">>,
     internal_server_error |-> <<"i","n","t","e","r","n","a","l"," ","s","e","r","v","e","r"," ","e","r","r","o","r">>,
     ssl |-> <<"s","s","l">>,
     tls |-> <<"t","l","s">>,
     invalid_data |-> <<"i","n","v","a","l","i","d"," ","d","a","t","a">>,
     corrupt |-> <<"c","o","r","r","u","p","t">>,
     no_decoder |-> <<"n","o"," ","d","e","c","o","d","e","r">>,
     decryption |-> <<"d","e","c","r","y","p","t","i","o","n">>,
     permission_denied |-> <<"p","e","r","m","i","s","s","i","o","n"," ","d","e","n","i","e","d">>,
     disk_full |-> <<"d","i","s","k"," ","f","u","l","l">>,
     no_space |-> <<"n","o"," ","s","p","a","c","e">>]

NoRetryKeywords ==  \* app.py:379-383
    << <<"4","0","3">>,
       <<"f","o","r","b","i","d","d","e","n">>,
       <<"n","o","t"," ","f","o","u","n","d">>,
       <<"4","0","4">>,
       <<"p","e","r","m","i","s","s","i","o","n"," ","d","e","n","i","e","d">>,
       <<"d","i","s","k"," ","f","u","l","l">>,
       <<"n","o"," ","s","p","a","c","e">>,
       <<"n","o"," ","d","e","c","o","d","e","r">>,
       <<"f","o","r","m","a","t"," ","n","o","t"," ","s","u","p","p","o","r","t">>,
       <<"u88ab","u7981","u6b62">>,
       <<"u4e0d","u5b58","u5728">> >>
NetworkRetryKeywords ==  \* app.py:387-389
    << <<"c","o","n","n","e","c","t","i","o","n">>,
       <<"t","i","m","e","o","u","t">>,
       <<"n","e","t","w","o","r","k">>,
       <<"s","s","l">>,
       <<"t","l","s">>,
       <<"u8fde","u63a5">>,
       <<"u8d85","u65f6">>,
       <<"u7f51","u7edc">> >>
BackoffKeywords ==  \* app.py:401-403
    << <<"c","o","n","n","e","c","t","i","o","n">>,
       <<"t","i","m","e","o","u","t">>,
       <<"n","e","t","w","o","r","k">>,
       <<"u8fde","u63a5">>,
       <<"u8d85","u65f6">>,
       <<"u7f51","u7edc">> >>
LongDelayKeywords ==  \* app.py:407-409
    << <<"5","0","0">>,
       <<"i","n","t","e","r","n","a","l"," ","s","e","r","v","e","r"," ","e","r","r","o","r">>,
       <<"s","s","l">>,
       <<"t","l","s">> >>

Out ==
    [ \* 'Connection reset by peer'
     ConnReset |->
       <<"C","o","n","n","e","c","t","i","o","n"," ","r","e","s","e","t"," ","b","y"," ","p","e","e","r">>,
     \* '404 Not Found'
     NotFound |->
       <<"4","0","4"," ","N","o","t"," ","F","o","u","n","d">>,
     \* 'SSL handshake failed'
     Ssl |->
       <<"S","S","L"," ","h","a","n","d","s","h","a","k","e"," ","f","a","i","l","e","d">>,
     \* 'Permission denied'
     Permission |->
       <<"P","e","r","m","i","s","s","i","o","n"," ","d","e","n","i","e","d">>,
     \* 'Unknown error'
     Unknown |->
       <<"U","n","k","n","o","w","n"," ","e","r","r","o","r">>,
     \* 'Pipe broken'
     PipeBroken |->
       <<"P","i","p","e"," ","b","r","o","k","e","n">>,
     \* 'Connection refused'
     ConnRefused |->
       <<"C","o","n","n","e","c","t","i","o","n"," ","r","e","f","u","s","e","d">>,
     \* 'Operation timed out'
     TimedOut |->
       <<"O","p","e","r","a","t","i","o","n"," ","t","i","m","e","d"," ","o","u","t">>,
     \* 'HTTP error 403 Forbidden'
     Forbidden |->
       <<"H","T","T","P"," ","e","r","r","o","r"," ","4","0","3"," ","F","o","r","b","i","d","d","e","n">>,
     \* '500 Internal Server Error'
     ServerError |->
       <<"5","0","0"," ","I","n","t","e","r","n","a","l"," ","S","e","r","v","e","r"," ","E","r","r","o","r">>,
     \* 'Invalid data found'
     InvalidData |->
       <<"I","n","v","a","l","i","d"," ","d","a","t","a"," ","f","o","u","n","d">>,
     \* 'No decoder for codec'
     NoDecoder |->
       <<"N","o"," ","d","e","c","o","d","e","r"," ","f","o","r"," ","c","o","d","e","c">>,
     \* 'Decryption failed'
     Decryption |->
       <<"D","e","c","r","y","p","t","i","o","n"," ","f","a","i","l","e","d">>,
     \* 'No space left on device'
     NoSpace |->
       <<"N","o"," ","s","p","a","c","e"," ","l","e","f","t"," ","o","n"," ","d","e","v","i","c","e">>,
     \* 'timeout after 404'
     Timeout404 |->
       <<"t","i","m","e","o","u","t"," ","a","f","t","e","r"," ","4","0","4">>,
     \* 'corrupt TLS record'
     TlsCorrupt |->
       <<"c","o","r","r","u","p","t"," ","T","L","S"," ","r","e","c","o","r","d">>,
     \* 'Permission denied: no space'
     DeniedNoSpace |->
       <<"P","e","r","m","i","s","s","i","o","n"," ","d","e","n","i","e","d",":"," ","n","o"," ","s","p","a","c","e">>]
ClearKeyTag ==  \* 'clearkey'
    <<"c","l","e","a","r","k","e","y">>
KeyHex ==  \* '0a1b:2c3d'
    <<"0","a","1","b",":","2","c","3","d">>
KeyTagged ==  \* 'ClearKey:0a1b:2c3d'
    <<"C","l","e","a","r","K","e","y",":","0","a","1","b",":","2","c","3","d">>
Sep ==  \* ' | '
    <<" ","|"," ">>

(***************************************************************************)
(* Failure classifier and retry policy (pure functions of app.py).         *)
(***************************************************************************)

\* Python's `a or b` on Optional[int]: <<>> is None, <<n>> is the integer n.
PyOr(a, b) ==
    IF a # <<>> /\ a[1] # 0 THEN a ELSE b

\* How an f-string renders an Optional[int].
CodeText(return_code) ==
    IF return_code = <<>> THEN <<"N","o","n","e">> ELSE IntToStr(return_code[1])

\* A variant of the classifier that looks for not-found/404 before timeout.
analyze_ffmpeg_error_404_first(output, return_code) ==
    IF output = <<>> THEN Msg.ExitedPrefix \o CodeText(return_code) \o <<")">>
    ELSE LET output_lower == Lower(output) IN
      IF Contains(P.connection_reset_by_peer, output_lower) THEN Msg.ConnReset
      ELSE IF Contains(P.connection_refused, output_lower) THEN Msg.ConnRefused
      ELSE IF Contains(P.code_404, output_lower) \/ Contains(P.not_found, output_lower)
           THEN Msg.NotFound
      ELSE IF Contains(P.timeout, output_lower) \/ Contains(P.timed_out, output_lower)
           THEN Msg.Timeout
      ELSE IF Contains(P.code_403, output_lower) \/ Contains(P.forbidden, output_lower)
           THEN Msg.Forbidden
      ELSE IF Contains(P.code_500, output_lower) \/ Contains(P.internal_server_error, output_lower)
           THEN Msg.ServerError
      ELSE IF Contains(P.ssl, output_lower) \/ Contains(P.tls, output_lower)
           THEN Msg.Tls
      ELSE IF Contains(P.invalid_data, output_lower) \/ Contains(P.corrupt, output_lower)
           THEN Msg.Corrupt
      ELSE IF Contains(P.no_decoder, output_lower) THEN Msg.NoDecoder
      ELSE IF Contains(P.decryption, output_lower) THEN Msg.Decryption
      ELSE IF Contains(P.permission_denied, output_lower) THEN Msg.Permission
      ELSE IF Contains(P.disk_full, output_lower) \/ Contains(P.no_space, output_lower)
           THEN Msg.DiskFull
      ELSE Msg.UnknownPrefix \o CodeText(return_code) \o <<")">>

\* _analyze_ffmpeg_error: first matching pattern of the lower-cased output.
analyze_ffmpeg_error(output, return_code) ==
    IF output = <<>> THEN Msg.ExitedPrefix \o CodeText(return_code) \o <<")">>
    ELSE LET output_lower == Lower(output) IN
      IF Contains(P.connection_reset_by_peer, output_lower) THEN Msg.ConnReset
      ELSE IF Contains(P.connection_refused, output_lower) THEN Msg.ConnRefused
      ELSE IF Contains(P.timeout, output_lower) \/ Contains(P.timed_out, output_lower)
           THEN Msg.Timeout
      ELSE IF Contains(P.code_403, output_lower) \/ Contains(P.forbidden, output_lower)
           THEN Msg.Forbidden
      ELSE IF Contains(P.code_404, output_lower) \/ Contains(P.not_found, output_lower)
           THEN Msg.NotFound
      ELSE IF Contains(P.code_500, output_lower) \/ Contains(P.internal_server_error, output_lower)
           THEN Msg.ServerError
      ELSE IF Contains(P.ssl, output_lower) \/ Contains(P.tls, output_lower)
           THEN Msg.Tls
      ELSE IF Contains(P.invalid_data, output_lower) \/ Contains(P.corrupt, output_lower)
           THEN Msg.Corrupt
      ELSE IF Contains(P.no_decoder, output_lower) THEN Msg.NoDecoder
      ELSE IF Contains(P.decryption, output_lower) THEN Msg.Decryption
      ELSE IF Contains(P.permission_denied, output_lower) THEN Msg.Permission
      ELSE IF Contains(P.disk_full, output_lower) \/ Contains(P.no_space, output_lower)
           THEN Msg.DiskFull
      ELSE Msg.UnknownPrefix \o CodeText(return_code) \o <<")">>

\* A variant of _should_retry_error whose network cap is the global ceiling.
should_retry_error_cap3(error_analysis, current_restarts) ==
    LET error_lower == Lower(error_analysis) IN
      IF ContainsAny(NoRetryKeywords, error_lower) THEN FALSE
      ELSE IF ContainsAny(NetworkRetryKeywords, error_lower) THEN current_restarts < 3
      ELSE TRUE

\* _should_retry_error: keyword tests on the lower-cased classifier message.
should_retry_error(error_analysis, current_restarts) ==
    LET error_lower == Lower(error_analysis) IN
      IF ContainsAny(NoRetryKeywords, error_lower) THEN FALSE
      ELSE IF ContainsAny(NetworkRetryKeywords, error_lower) THEN current_restarts < 2
      ELSE TRUE

base_delay == 5

RECURSIVE Pow2(_)
Pow2(n) ==
    IF n <= 0 THEN 1 ELSE 2 * Pow2(n - 1)

Min(a, b) ==
    IF a < b THEN a ELSE b

\* _get_retry_delay, for retry_count >= 1 (the only values the monitors pass).
get_retry_delay_uncapped(error_analysis, retry_count) ==
    LET error_lower == Lower(error_analysis) IN
      IF ContainsAny(BackoffKeywords, error_lower)
      THEN base_delay * Pow2(retry_count - 1)
      ELSE IF ContainsAny(LongDelayKeywords, error_lower) THEN base_delay * 2
      ELSE base_delay

get_retry_delay(error_analysis, retry_count) ==
    LET error_lower == Lower(error_analysis) IN
      IF ContainsAny(BackoffKeywords, error_lower)
      THEN Min(base_delay * Pow2(retry_count - 1), 30)
      ELSE IF ContainsAny(LongDelayKeywords, error_lower) THEN base_delay * 2
      ELSE base_delay

(***************************************************************************)
(* Bounds of the model.                                                    *)
(***************************************************************************)
\* Session generations (one Popen group each) created in one behaviour.
MaxGens == 3

\* Client requests suspended in the connectivity check at one time.
MaxReqs == 1

\* Coroutines alive at one time: suspended client requests and monitor tasks.
MaxTasks == 2

\* Session generations in a behaviour of the restart chains (SpecChain).
MaxChainGens == 6

\* Session generations in a behaviour of the pipe sessions (SpecPipe).
MaxPipeGens == 2

StreamIds ==
    {"s1", "s2"}

\* Python's Optional[str]: None is [some |-> FALSE], '' is [some |-> TRUE, text |-> <<>>].
PyNoneStr ==
    [some |-> FALSE, text |-> <<>>]

PyStr(t) ==
    [some |-> TRUE, text |-> t]

\* Python truthiness of an Optional[str].
Truthy(k) ==
    k.some /\ k.text # <<>>

\* License keys of a stream configuration: none, empty, "<kid>:<key>" in
\* hexadecimal, and a key that carries the word ClearKey.
PlainKeys ==
    {PyNoneStr, PyStr(<<>>), PyStr(KeyHex)}

TaggedKeys ==
    {PyStr(KeyTagged)}

\* What Popen.stdout.read() / stderr of an exited process may hold.
ProcOutputs ==
    {Out.ConnReset, Out.Ssl, Out.Forbidden, Out.Unknown}

\* Exit statuses of an exited process, as Popen.poll() returns them: <<n>>;
\* <<>> is None (still running).
ExitCodes ==
    {<<1>>}

max_restarts == 3

(***************************************************************************)
(* State.                                                                  *)
(***************************************************************************)
VARIABLES
    config,          \* self.config['streams'], by stream id
    sessions,        \* self.sessions: stream id -> session object (0: no entry)
    active_streams,  \* self.active_streams: stream id -> record
    gen,             \* the session objects ever created, with their processes
    mon,             \* the monitor tasks, mon[k] created together with gen[k]
    dirs,            \* the output directories temp_dir/<stream id>
    reqs,            \* client requests suspended in create_hls_stream
    hist,            \* history of each stream id, read by the properties only
    probe            \* inputs and results of the pure functions (SpecClassify)

vars ==
    <<config, sessions, active_streams, gen, mon, dirs, reqs, hist, probe>>

NoActive ==
    [present |-> FALSE, status |-> "stopped", error |-> <<>>,
     license_key |-> PyNoneStr, method |-> "none"]

NoProbe ==
    [stage |-> "off"]

\* The JSON responses of handle_stop_stream, by HTTP status and 'success'.
StopNotRunning_as500 ==
    [code |-> 500, success |-> FALSE]

StopNotRunning ==
    [code |-> 400, success |-> FALSE]

StopSucceeded ==
    [code |-> 200, success |-> TRUE]

StopFailed ==
    [code |-> 500, success |-> FALSE]

NoReply ==
    [code |-> 0, success |-> FALSE]

NoHist ==
    [stop_mid_delay |-> FALSE, stopped_restarts |-> {}, restarts |-> 0, stop_reply |-> NoReply,
     create_error |-> <<>>]

Configured(s) ==
    config[s].configured

\* create_hls_stream's choice of strategy (app.py:427).
use_pipe_inverted(license_key) ==
    ~ (Truthy(license_key) /\ Contains(ClearKeyTag, Lower(license_key.text)))

use_pipe(license_key) ==
    Truthy(license_key) /\ Contains(ClearKeyTag, Lower(license_key.text))

Alive(p) ==
    p \in {"alive", "term"}

\* The supervisor's handle on the decrypt process's stdout had it not been
\* closed.
WiredPipeHandle_left_open ==
    "open"

\* The supervisor's handle on the decrypt process's stdout once the transcoder
\* has been spawned with it as stdin: decrypt_process.stdout.close().
WiredPipeHandle ==
    "closed"

\* time.time() where a behaviour keeps the time of day (the probe then holds
\* the clock); the other behaviours run at one instant.
Clock ==
    IF probe.stage = "clock" THEN probe.now ELSE 0

\* A session record that is entered as running.
NewSession_running(s, method) ==
    [stream |-> s, held |-> TRUE, method |-> method, status |-> "running",
     restart_count |-> 0, error |-> <<>>, last_error |-> <<>>,
     dec |-> IF method = "decryption_pipe" THEN "alive" ELSE "none",
     ff |-> "alive", gaveup |-> FALSE,
     pipe |-> IF method = "decryption_pipe" THEN WiredPipeHandle ELSE "none",
     created_at |-> Clock, slot |-> 0]

NewSession(s, method) ==
    [stream |-> s, held |-> TRUE, method |-> method, status |-> "starting",
     restart_count |-> 0, error |-> <<>>, last_error |-> <<>>,
     dec |-> IF method = "decryption_pipe" THEN "alive" ELSE "none",
     ff |-> "alive", gaveup |-> FALSE,
     pipe |-> IF method = "decryption_pipe" THEN WiredPipeHandle ELSE "none",
     created_at |-> Clock, slot |-> 0]

NewMonitor(s, method) ==
    [stream |-> s, kind |-> method, pc |-> "init", sess |-> 0, target |-> 0,
     rcount |-> 0, rerr |-> <<>>, delay |-> 0]

EndedMonitor(m) ==
    [stream |-> m.stream, kind |-> m.kind, pc |-> "end", sess |-> 0, target |-> 0,
     rcount |-> 0, rerr |-> <<>>, delay |-> 0]

\* A session object that nothing refers to any more keeps only its processes.
ForgottenSession(g) ==
    [stream |-> g.stream, held |-> FALSE, method |-> g.method, status |-> "gone",
     restart_count |-> 0, error |-> <<>>, last_error |-> <<>>,
     dec |-> g.dec, ff |-> g.ff, gaveup |-> FALSE, pipe |-> "none", created_at |-> 0,
     slot |-> 0]

SessionRefs(m) ==
    (IF m.pc \in {"settle", "playlist_wait", "delay"} THEN {m.sess} ELSE {})
    \cup (IF m.pc \in {"r_term_dec", "r_term_ff"} THEN {m.target} ELSE {})

\* Garbage collection of the Python objects: unreferenced session dicts.
Collect(g, m, sess) ==
    [k \in DOMAIN g |->
        IF (\E s \in StreamIds : sess[s] = k) \/ (\E j \in DOMAIN m : k \in SessionRefs(m[j]))
        THEN g[k] ELSE ForgottenSession(g[k])]

TypeOK ==
    /\ \A s \in StreamIds : sessions[s] \in 0..Len(gen)
    /\ Len(gen) <= MaxChainGens
    /\ Len(mon) = Len(gen)
    /\ Len(reqs) <= MaxReqs

Init0 ==
    /\ sessions = [s \in StreamIds |-> 0]
    /\ active_streams = [s \in StreamIds |-> NoActive]
    /\ gen = <<>>
    /\ mon = <<>>
    /\ dirs = [s \in StreamIds |-> [exists |-> FALSE, playlist |-> FALSE]]
    /\ reqs = <<>>
    /\ hist = [s \in StreamIds |-> NoHist]

\* One configured stream, "s1", with one of the license keys.
InitKeys(keys) ==
    /\ Init0
    /\ \E k \in keys :
         config = [s \in StreamIds |->
                     [configured |-> (s = "s1"), license_key |-> k]]
    /\ probe = NoProbe

Init ==
    InitKeys(PlainKeys)

(***************************************************************************)
(* Steps of the coroutines are written as functions of a record            *)
(* st = [sessions, active, gen, mon]; Commit makes st the next state.      *)
(***************************************************************************)
Cur ==
    [sessions |-> sessions, active |-> active_streams, gen |-> gen, mon |-> mon]

Commit(st) ==
    /\ sessions' = st.sessions
    /\ active_streams' = st.active
    /\ mon' = st.mon
    /\ gen' = Collect(st.gen, st.mon, st.sessions)

Method(license_key) ==
    IF use_pipe(license_key) THEN "decryption_pipe" ELSE "ffmpeg_direct"

\* _create_hls_with_ffmpeg / _create_hls_with_decryption_pipe, the Popen calls
\* succeed: the session and the active_streams entry are (over)written and a
\* monitor task is created.  A dict keeps a key that is assigned again at the
\* place of its first insertion: slot is the session's place in self.sessions,
\* kept in the behaviours in which the dict is iterated (those with a clock).
DoSpawn(st, s, license_key) ==
    LET method == Method(license_key)
        k == Len(st.gen) + 1
        slot == IF probe.stage # "clock" THEN 0
                ELSE IF st.sessions[s] # 0 THEN st.gen[st.sessions[s]].slot ELSE k
    IN  [st EXCEPT !.gen = Append(@, [NewSession(s, method) EXCEPT !.slot = slot]),
                   !.mon = Append(@, NewMonitor(s, method)),
                   !.sessions[s] = k,
                   !.active[s] = [present |-> TRUE, status |-> "starting",
                                  error |-> <<>>, license_key |-> license_key,
                                  method |-> method]]

\* An except block that leaves an active_streams entry behind.
DoSpawnFail_keeps_entry(st, s) ==
    [st EXCEPT !.sessions[s] = 0,
               !.active[s] = [NoActive EXCEPT !.present = TRUE, !.status = "starting"]]

\* The first Popen raises: the except block deletes both registry entries.
DoSpawnFail(st, s) ==
    [st EXCEPT !.sessions[s] = 0, !.active[s] = NoActive]

\* Pipe mode, the second Popen raises: the decrypt process already runs and no
\* session refers to it; the except block deletes both registry entries.
DoSpawnLeak(st, s) ==
    LET lost == [ForgottenSession(NewSession(s, "decryption_pipe"))
                   EXCEPT !.ff = "none"]
    IN  [st EXCEPT !.gen = Append(@, lost),
                   !.mon = Append(@, EndedMonitor(NewMonitor(s, "decryption_pipe"))),
                   !.sessions[s] = 0, !.active[s] = NoActive]

\* Popen may raise (no executable, no memory) where the scope lets it.
SpawnOutcomes(license_key, popen_fails) ==
    IF popen_fails
    THEN {"ok", "fail"} \cup (IF use_pipe(license_key) THEN {"leak"} ELSE {})
    ELSE {"ok"}

Spawned(st, s, license_key, outcome) ==
    CASE outcome = "ok" -> DoSpawn(st, s, license_key)
      [] outcome = "fail" -> DoSpawnFail(st, s)
      [] outcome = "leak" -> DoSpawnLeak(st, s)

(***************************************************************************)
(* Client requests.                                                        *)
(***************************************************************************)
\* handle_start_stream up to the await in create_hls_stream.
LiveTasks ==
    Len(reqs) + Cardinality({k \in DOMAIN mon : mon[k].pc # "end"})

HandleStartBegin(s, scope) ==
    /\ Len(reqs) < MaxReqs
    /\ LiveTasks < scope.max_tasks
    /\ Configured(s)
    /\ sessions[s] = 0
    /\ dirs' = [dirs EXCEPT ![s].exists = TRUE]
    /\ reqs' = Append(reqs, [kind |-> "start", stream |-> s,
                             license_key |-> config[s].license_key])
    /\ hist' = [hist EXCEPT ![s].stop_mid_delay = FALSE, ![s].stop_reply = NoReply,
                            ![s].create_error = <<>>, ![s].stopped_restarts = {}]
    /\ UNCHANGED <<config, sessions, active_streams, gen, mon, probe>>

\* handle_stream_request (GET playlist.m3u8) up to the await in create_hls_stream.
HandlePlaylistBegin(s, scope) ==
    /\ Len(reqs) < MaxReqs
    /\ LiveTasks < scope.max_tasks
    /\ Configured(s)
    /\ dirs' = [dirs EXCEPT ![s].exists = TRUE]
    /\ reqs' = Append(reqs, [kind |-> "playlist", stream |-> s,
                             license_key |-> config[s].license_key])
    /\ hist' = [hist EXCEPT ![s].stop_mid_delay = FALSE, ![s].stop_reply = NoReply,
                            ![s].create_error = <<>>, ![s].stopped_restarts = {}]
    /\ UNCHANGED <<config, sessions, active_streams, gen, mon, probe>>

Remove(seq, i) ==
    SubSeq(seq, 1, i - 1) \o SubSeq(seq, i + 1, Len(seq))

\* The exception create_hls_stream raised to a client request as the history
\* keeps it, where the scope keeps responses at all.
Raised(scope, text) ==
    IF scope.replies THEN text ELSE <<>>

\* The connectivity check of a client request fails: create_hls_stream raises.
ReqConnectFail(i, scope) ==
    /\ i \in DOMAIN reqs
    /\ reqs' = Remove(reqs, i)
    /\ hist' = [hist EXCEPT ![reqs[i].stream].create_error = Raised(scope, Msg.NoConnect)]
    /\ UNCHANGED <<config, sessions, active_streams, gen, mon, dirs, probe>>

\* The connectivity check of a client request succeeds: strategy and spawn.
ReqConnectOk(i, scope) ==
    /\ i \in DOMAIN reqs
    /\ \E outcome \in SpawnOutcomes(reqs[i].license_key, scope.popen_fails) :
         /\ outcome = "fail" \/ Len(gen) < scope.max_gens
         /\ Commit(Spawned(Cur, reqs[i].stream, reqs[i].license_key, outcome))
         /\ hist' = [hist EXCEPT ![reqs[i].stream] =
                       IF outcome # "ok"
                       THEN [@ EXCEPT !.create_error = Raised(scope, Msg.NoSuchFile)]
                       ELSE [@ EXCEPT !.stop_mid_delay = FALSE, !.restarts = 0,
                                      !.create_error = <<>>]]
    /\ reqs' = Remove(reqs, i)
    /\ UNCHANGED <<config, dirs, probe>>

\* cleanup_session: terminate() and wait(timeout=5) for each live process, in
\* order; a process that does not exit in time makes wait() raise.
CleanupOutcomes(g, stubborn) ==
    LET one(p) == IF Alive(p)
                  THEN {"exited"} \cup (IF stubborn THEN {"term"} ELSE {})
                  ELSE {p}
        ffonly(d) == {[ok |-> f # "term", dec |-> d, ff |-> f] : f \in one(g.ff)}
    IN  IF g.method = "decryption_pipe"
        THEN UNION {IF d = "term" THEN {[ok |-> FALSE, dec |-> d, ff |-> g.ff]}
                    ELSE ffonly(d) : d \in one(g.dec)}
        ELSE ffonly(g.dec)

MonitorsInDelay(g) ==
    {j \in DOMAIN mon : mon[j].pc = "delay" /\ mon[j].sess = g}

\* The monitors of stream s that are at an await of _restart_ffmpeg_process or
\* _restart_decryption_pipe, as the history keeps them where the scope keeps
\* responses at all.
MonitorsInRestart(scope, s) ==
    IF scope.replies
    THEN {j \in DOMAIN mon : /\ mon[j].stream = s
                             /\ mon[j].pc \in {"r_term_dec", "r_term_ff", "r_pause", "r_conn"}}
    ELSE {}

\* The response to a stop request as the history keeps it, where the scope
\* keeps responses at all.
Replied(scope, reply) ==
    IF scope.replies THEN reply ELSE NoReply

\* handle_stop_stream: 400 without a session; else cleanup_session and the
\* removal of the active_streams entry, 200; 500 if cleanup_session raised.
HandleStop(s, scope) ==
    /\ IF sessions[s] = 0
       THEN /\ hist' = [hist EXCEPT ![s].stop_reply = Replied(scope, StopNotRunning),
                                     ![s].stopped_restarts = @ \cup MonitorsInRestart(scope, s)]
            /\ UNCHANGED <<sessions, active_streams, gen, mon, dirs>>
       ELSE LET g == sessions[s] IN
            \E out \in CleanupOutcomes(gen[g], scope.stubborn) :
              LET st1 == [Cur EXCEPT !.gen[g].dec = out.dec, !.gen[g].ff = out.ff] IN
              IF out.ok
              THEN /\ Commit([st1 EXCEPT !.sessions[s] = 0, !.active[s] = NoActive])
                   /\ dirs' = [dirs EXCEPT ![s] = [exists |-> FALSE, playlist |-> FALSE]]
                   /\ hist' = [hist EXCEPT ![s] =
                                 [@ EXCEPT !.stop_mid_delay = MonitorsInDelay(g) # {},
                                           !.restarts = 0,
                                           !.stop_reply = Replied(scope, StopSucceeded),
                                           !.stopped_restarts =
                                               @ \cup MonitorsInRestart(scope, s)]]
              ELSE /\ Commit(st1)
                   /\ hist' = [hist EXCEPT ![s].stop_reply = Replied(scope, StopFailed),
                                            ![s].stopped_restarts =
                                                @ \cup MonitorsInRestart(scope, s)]
                   /\ UNCHANGED dirs
    /\ UNCHANGED <<config, reqs, probe>>

(***************************************************************************)
(* The environment: processes exit, the transcoder writes its playlist.    *)
(***************************************************************************)
\* A process exits by itself.  The exit of a process that no session object
\* refers to any more is seen by nobody and is left out.
ProcExit(k, which) ==
    /\ k \in DOMAIN gen
    /\ gen[k].held
    /\ Alive(gen[k][which])
    /\ Commit([Cur EXCEPT !.gen[k][which] = "exited"])
    /\ UNCHANGED <<config, dirs, reqs, hist, probe>>

PlaylistWritten(s) ==
    /\ dirs[s].exists
    /\ ~ dirs[s].playlist
    /\ \E k \in DOMAIN gen : gen[k].stream = s /\ Alive(gen[k].ff)
    /\ dirs' = [dirs EXCEPT ![s].playlist = TRUE]
    /\ UNCHANGED <<config, sessions, active_streams, gen, mon, reqs, hist, probe>>

(***************************************************************************)
(* The monitor tasks: _monitor_ffmpeg_process, _monitor_decryption_pipe    *)
(* and the restart coroutines they await.  Each action is the code between *)
(* two awaits.                                                             *)
(***************************************************************************)
\* First run of the task: bind `session` to what the registry holds now.
MonitorInit(k) ==
    /\ k \in DOMAIN mon
    /\ mon[k].pc = "init"
    /\ Commit(IF sessions[mon[k].stream] = 0
              THEN [Cur EXCEPT !.mon[k] = EndedMonitor(@)]
              ELSE [Cur EXCEPT !.mon[k].pc = "settle",
                               !.mon[k].sess = sessions[mon[k].stream]])
    /\ UNCHANGED <<config, dirs, reqs, hist, probe>>

\* The monitors' failure branch (app.py:636-661, 726-751): record the error,
\* then either count a restart and sleep for the retry delay, or give up.
Failure(st, k, msg) ==
    LET g == st.mon[k].sess
        s == st.mon[k].stream
        cur == st.gen[g].restart_count
        st1 == [st EXCEPT !.active[s] = IF @.present
                                        THEN [@ EXCEPT !.status = "error", !.error = msg]
                                        ELSE @,
                          !.gen[g].status = "error",
                          !.gen[g].error = msg]
    IN  IF cur < max_restarts /\ should_retry_error(msg, cur)
        THEN [st1 EXCEPT !.gen[g].restart_count = cur + 1,
                         !.mon[k].pc = "delay",
                         !.mon[k].delay = get_retry_delay(msg, cur + 1)]
        ELSE [st1 EXCEPT !.gen[g].gaveup = TRUE,
                         !.mon[k] = EndedMonitor(@)]

\* The texts error_info may hold for one exited process of a pipe session.
PipePart(prefix, prefix_no_text, code, outs) ==
    {prefix \o CodeText(code) \o <<")", ":", " ">> \o o : o \in outs}
    \cup {prefix_no_text \o CodeText(code) \o <<")">>}

\* " | ".join(error_info) and the code passed on, for the poll() results.
PipeErrors(decrypt_status, ffmpeg_status, outs) ==
    LET dparts == IF decrypt_status # <<>>
                  THEN PipePart(Msg.PipeDecryptExit, Msg.PipeDecryptExitNoText, decrypt_status, outs)
                  ELSE {<<>>}
        fparts == IF ffmpeg_status # <<>>
                  THEN PipePart(Msg.PipeFfmpegExit, Msg.PipeFfmpegExitNoText, ffmpeg_status, outs)
                  ELSE {<<>>}
    IN  {[text |-> IF d = <<>> THEN f ELSE IF f = <<>> THEN d ELSE d \o Sep \o f,
          code |-> PyOr(ffmpeg_status, decrypt_status)] : d \in dparts, f \in fparts}

\* Popen.poll(): None (<<>>) while the process runs, else its exit status.
PollChoices(exited) ==
    IF exited THEN ExitCodes ELSE {<<>>}

\* The classifier's results _monitor_ffmpeg_process can get for an exited
\* process whose output is one of outs.
DirectAnalyses(outs) ==
    {analyze_ffmpeg_error(o, rc) : o \in outs, rc \in ExitCodes}

\* The classifier's results _monitor_decryption_pipe can get (app.py:697-723).
PipeAnalyses(dec_exited, ff_exited, outs) ==
    UNION {{analyze_ffmpeg_error(e.text, e.code) : e \in PipeErrors(ds, fs, outs)} :
             ds \in PollChoices(dec_exited), fs \in PollChoices(ff_exited)}

\* The analyses of the exits whose output is one of outs.
Analyses(outs) ==
    [direct |-> DirectAnalyses(outs),
     pipe |-> [d \in BOOLEAN |-> [f \in BOOLEAN |->
                 IF d \/ f THEN PipeAnalyses(d, f, outs) ELSE {}]]]

\* After sleep(2): the liveness check.
MonitorCheck(k, scope) ==
    /\ k \in DOMAIN mon
    /\ mon[k].pc = "settle"
    /\ LET g == gen[mon[k].sess] IN
       IF mon[k].kind = "ffmpeg_direct"
       THEN IF g.ff = "exited"
            THEN \E msg \in scope.analyses.direct : Commit(Failure(Cur, k, msg))
            ELSE Commit([Cur EXCEPT !.mon[k].pc = "playlist_wait"])
       ELSE IF g.dec = "exited" \/ g.ff = "exited"
            THEN \E msg \in scope.analyses.pipe[g.dec = "exited"][g.ff = "exited"] :
                   Commit(Failure(Cur, k, msg))
            ELSE Commit([Cur EXCEPT !.mon[k].pc = "playlist_wait"])
    /\ UNCHANGED <<config, dirs, reqs, hist, probe>>

\* After sleep(5): is there a playlist.m3u8 in the session's output directory?
MonitorPlaylist(k) ==
    /\ k \in DOMAIN mon
    /\ mon[k].pc = "playlist_wait"
    /\ LET g == mon[k].sess
           s == mon[k].stream
       IN  Commit(IF dirs[s].playlist
                  THEN [Cur EXCEPT !.active[s] = IF @.present
                                                 THEN [@ EXCEPT !.status = "running"]
                                                 ELSE @,
                                   !.gen[g].status = "running",
                                   !.mon[k] = EndedMonitor(@)]
                  ELSE [Cur EXCEPT !.mon[k] = EndedMonitor(@)])
    /\ UNCHANGED <<config, dirs, reqs, hist, probe>>

\* A restart that empties both registries.
ForgetOld_all_streams(st, k, t) ==
    LET s == st.mon[k].stream IN
    IF ~ Configured(s)
    THEN [st EXCEPT !.mon[k] = EndedMonitor(@)]
    ELSE [st EXCEPT !.mon[k].pc = "r_pause",
                    !.mon[k].sess = 0,
                    !.mon[k].target = 0,
                    !.mon[k].delay = 0,
                    !.mon[k].rcount = st.gen[t].restart_count,
                    !.mon[k].rerr = st.gen[t].error,
                    !.sessions = [x \in StreamIds |-> 0],
                    !.active = [x \in StreamIds |-> NoActive]]

\* _restart_*: look the stream up in the configuration, keep restart_count and
\* error of the session found, delete both registry entries, then sleep(1).
ForgetOld(st, k, t) ==
    LET s == st.mon[k].stream IN
    IF ~ Configured(s)
    THEN [st EXCEPT !.mon[k] = EndedMonitor(@)]
    ELSE [st EXCEPT !.mon[k].pc = "r_pause",
                    !.mon[k].sess = 0,
                    !.mon[k].target = 0,
                    !.mon[k].delay = 0,
                    !.mon[k].rcount = st.gen[t].restart_count,
                    !.mon[k].rerr = st.gen[t].error,
                    !.sessions[s] = 0,
                    !.active[s] = NoActive]

\* terminate() one process of session t and go to sleep(1).
Terminate(st, k, t, which) ==
    [st EXCEPT !.gen[t][which] = "term",
               !.mon[k].pc = IF which = "dec" THEN "r_term_dec" ELSE "r_term_ff",
               !.mon[k].sess = 0,
               !.mon[k].delay = 0,
               !.mon[k].target = t]

\* Stopping the old processes of session t without a look at the transcoder.
StopOld_decrypt_only(st, k, t, which) ==
    IF which = "dec" /\ st.mon[k].kind = "decryption_pipe" /\ Alive(st.gen[t].dec)
    THEN Terminate(st, k, t, "dec")
    ELSE ForgetOld(st, k, t)

\* Stopping the old processes of session t, from process `which` on.
StopOld(st, k, t, which) ==
    IF which = "dec" /\ st.mon[k].kind = "decryption_pipe" /\ Alive(st.gen[t].dec)
    THEN Terminate(st, k, t, "dec")
    ELSE IF Alive(st.gen[t].ff)
    THEN Terminate(st, k, t, "ff")
    ELSE ForgetOld(st, k, t)

\* After the retry delay: _restart_ffmpeg_process / _restart_decryption_pipe
\* up to their first await.
MonitorRestartBegin(k) ==
    /\ k \in DOMAIN mon
    /\ mon[k].pc = "delay"
    /\ Commit(IF sessions[mon[k].stream] = 0
              THEN [Cur EXCEPT !.mon[k] = EndedMonitor(@)]
              ELSE StopOld(Cur, k, sessions[mon[k].stream], "dec"))
    /\ UNCHANGED <<config, dirs, reqs, hist, probe>>

\* After the sleep(1) that follows terminate(): kill() what is still alive.
MonitorTermWait(k) ==
    /\ k \in DOMAIN mon
    /\ mon[k].pc \in {"r_term_dec", "r_term_ff"}
    /\ LET t == mon[k].target
           which == IF mon[k].pc = "r_term_dec" THEN "dec" ELSE "ff"
           st1 == [Cur EXCEPT !.gen[t][which] = "exited"]
       IN  Commit(IF which = "dec" THEN StopOld(st1, k, t, "ff") ELSE ForgetOld(st1, k, t))
    /\ UNCHANGED <<config, dirs, reqs, hist, probe>>

\* After the sleep(1) that follows the deletion: create_hls_stream up to its await.
MonitorRestartPause(k) ==
    /\ k \in DOMAIN mon
    /\ mon[k].pc = "r_pause"
    /\ dirs' = [dirs EXCEPT ![mon[k].stream].exists = TRUE]
    /\ Commit([Cur EXCEPT !.mon[k].pc = "r_conn"])
    /\ UNCHANGED <<config, reqs, hist, probe>>

\* The restart's connectivity check fails: the except block of _restart_*.
MonitorRestartConnFail(k) ==
    /\ k \in DOMAIN mon
    /\ mon[k].pc = "r_conn"
    /\ Commit([Cur EXCEPT !.active[mon[k].stream] =
                             IF @.present
                             THEN [@ EXCEPT !.status = "failed", !.error = Msg.NoConnect]
                             ELSE @,
                          !.mon[k] = EndedMonitor(@)])
    /\ UNCHANGED <<config, dirs, reqs, hist, probe>>

\* The restart's connectivity check succeeds: strategy, spawn, and on success
\* restart_count and last_error are put into the session now registered.
MonitorRestartConnOk(k, scope) ==
    /\ k \in DOMAIN mon
    /\ mon[k].pc = "r_conn"
    /\ LET s == mon[k].stream
           key == config[s].license_key
       IN  \E outcome \in SpawnOutcomes(key, scope.popen_fails) :
             /\ outcome = "fail" \/ Len(gen) < scope.max_gens
             /\ LET st1 == Spawned(Cur, s, key, outcome)
                    n == st1.sessions[s]
                    st2 == IF n = 0 THEN st1
                           ELSE [st1 EXCEPT !.gen[n].restart_count = mon[k].rcount,
                                            !.gen[n].last_error = mon[k].rerr]
                IN  Commit([st2 EXCEPT !.mon[k] = EndedMonitor(@)])
             /\ hist' = [hist EXCEPT ![s].restarts =
                           IF outcome = "ok" THEN @ + 1 ELSE @]
    /\ UNCHANGED <<config, dirs, reqs, probe>>

\* What the environment does in the behaviours of Spec: the outputs of the
\* processes that exit, whether Popen may raise, whether a process may
\* ignore SIGTERM for the 5 s that cleanup_session waits.
Scope ==
    [max_gens |-> MaxGens, max_tasks |-> MaxTasks, analyses |-> Analyses(ProcOutputs),
     popen_fails |-> TRUE, stubborn |-> FALSE, replies |-> FALSE]

Next ==
    \/ \E s \in StreamIds : HandleStartBegin(s, Scope)
    \/ \E s \in StreamIds : HandlePlaylistBegin(s, Scope)
    \/ \E i \in 1..MaxReqs : ReqConnectFail(i, Scope)
    \/ \E i \in 1..MaxReqs : ReqConnectOk(i, Scope)
    \/ \E s \in StreamIds : HandleStop(s, Scope)
    \/ \E k \in 1..MaxGens, which \in {"dec", "ff"} : ProcExit(k, which)
    \/ \E s \in StreamIds : PlaylistWritten(s)
    \/ \E k \in 1..MaxGens : MonitorInit(k)
    \/ \E k \in 1..MaxGens : MonitorCheck(k, Scope)
    \/ \E k \in 1..MaxGens : MonitorPlaylist(k)
    \/ \E k \in 1..MaxGens : MonitorRestartBegin(k)
    \/ \E k \in 1..MaxGens : MonitorTermWait(k)
    \/ \E k \in 1..MaxGens : MonitorRestartPause(k)
    \/ \E k \in 1..MaxGens : MonitorRestartConnFail(k)
    \/ \E k \in 1..MaxGens : MonitorRestartConnOk(k, Scope)

Spec ==
    Init /\ [][Next]_vars

(***************************************************************************)
(* A stream whose license key selects the decryption pipe.                 *)
(***************************************************************************)
PipeOutputs ==
    {Out.ConnReset, Out.Forbidden}

PipeScope ==
    [max_gens |-> MaxPipeGens, max_tasks |-> MaxTasks, analyses |-> Analyses(PipeOutputs),
     popen_fails |-> TRUE, stubborn |-> FALSE, replies |-> TRUE]

InitPipe ==
    InitKeys(TaggedKeys)

NextPipe ==
    \/ \E s \in StreamIds : HandleStartBegin(s, PipeScope)
    \/ \E s \in StreamIds : HandlePlaylistBegin(s, PipeScope)
    \/ \E i \in 1..MaxReqs : ReqConnectFail(i, PipeScope)
    \/ \E i \in 1..MaxReqs : ReqConnectOk(i, PipeScope)
    \/ \E s \in StreamIds : HandleStop(s, PipeScope)
    \/ \E k \in 1..MaxPipeGens, which \in {"dec", "ff"} : ProcExit(k, which)
    \/ \E s \in StreamIds : PlaylistWritten(s)
    \/ \E k \in 1..MaxPipeGens : MonitorInit(k)
    \/ \E k \in 1..MaxPipeGens : MonitorCheck(k, PipeScope)
    \/ \E k \in 1..MaxPipeGens : MonitorPlaylist(k)
    \/ \E k \in 1..MaxPipeGens : MonitorRestartBegin(k)
    \/ \E k \in 1..MaxPipeGens : MonitorTermWait(k)
    \/ \E k \in 1..MaxPipeGens : MonitorRestartPause(k)
    \/ \E k \in 1..MaxPipeGens : MonitorRestartConnFail(k)
    \/ \E k \in 1..MaxPipeGens : MonitorRestartConnOk(k, PipeScope)

SpecPipe ==
    InitPipe /\ [][NextPipe]_vars

(***************************************************************************)
(* The restart chains of a stream that is started and requested but never  *)
(* stopped, whose processes exit with an output the classifier does not    *)
(* know.                                                                   *)
(***************************************************************************)
ChainOutputs ==
    {Out.Unknown}

ChainScope ==
    [max_gens |-> MaxChainGens, max_tasks |-> MaxTasks, analyses |-> Analyses(ChainOutputs),
     popen_fails |-> FALSE, stubborn |-> FALSE, replies |-> FALSE]

InitChain ==
    InitKeys({PyNoneStr})

NextChain ==
    \/ \E s \in StreamIds : HandleStartBegin(s, ChainScope)
    \/ \E s \in StreamIds : HandlePlaylistBegin(s, ChainScope)
    \/ \E i \in 1..MaxReqs : ReqConnectOk(i, ChainScope)
    \/ \E k \in 1..MaxChainGens : ProcExit(k, "ff")
    \/ \E k \in 1..MaxChainGens : MonitorInit(k)
    \/ \E k \in 1..MaxChainGens : MonitorCheck(k, ChainScope)
    \/ \E k \in 1..MaxChainGens : MonitorPlaylist(k)
    \/ \E k \in 1..MaxChainGens : MonitorRestartBegin(k)
    \/ \E k \in 1..MaxChainGens : MonitorTermWait(k)
    \/ \E k \in 1..MaxChainGens : MonitorRestartPause(k)
    \/ \E k \in 1..MaxChainGens : MonitorRestartConnOk(k, ChainScope)

SpecChain ==
    InitChain /\ [][NextChain]_vars

(***************************************************************************)
(* Stop requests: a stream without license key or with a key that selects  *)
(* the decryption pipe, processes that may ignore SIGTERM for the 5 s that *)
(* cleanup_session waits, and the responses of handle_stop_stream kept in  *)
(* the history.                                                            *)
(***************************************************************************)
MaxStopGens == 2

StopOutputs ==
    {Out.Unknown}

StopScope ==
    [max_gens |-> MaxStopGens, max_tasks |-> MaxTasks, analyses |-> Analyses(StopOutputs),
     popen_fails |-> FALSE, stubborn |-> TRUE, replies |-> TRUE]

InitStop ==
    InitKeys({PyNoneStr, PyStr(KeyTagged)})

NextStop ==
    \/ \E s \in StreamIds : HandleStartBegin(s, StopScope)
    \/ \E s \in StreamIds : HandlePlaylistBegin(s, StopScope)
    \/ \E i \in 1..MaxReqs : ReqConnectFail(i, StopScope)
    \/ \E i \in 1..MaxReqs : ReqConnectOk(i, StopScope)
    \/ \E s \in StreamIds : HandleStop(s, StopScope)
    \/ \E k \in 1..MaxStopGens, which \in {"dec", "ff"} : ProcExit(k, which)
    \/ \E s \in StreamIds : PlaylistWritten(s)
    \/ \E k \in 1..MaxStopGens : MonitorInit(k)
    \/ \E k \in 1..MaxStopGens : MonitorCheck(k, StopScope)
    \/ \E k \in 1..MaxStopGens : MonitorPlaylist(k)
    \/ \E k \in 1..MaxStopGens : MonitorRestartBegin(k)
    \/ \E k \in 1..MaxStopGens : MonitorTermWait(k)
    \/ \E k \in 1..MaxStopGens : MonitorRestartPause(k)
    \/ \E k \in 1..MaxStopGens : MonitorRestartConnFail(k)
    \/ \E k \in 1..MaxStopGens : MonitorRestartConnOk(k, StopScope)

SpecStop ==
    InitStop /\ [][NextStop]_vars

(***************************************************************************)
(* Progress.  The event loop runs every task that is ready: a sleep ends,  *)
(* the connectivity check answers or times out after 10 s, so each step of *)
(* a monitor task and of a suspended request is taken once it is enabled.  *)
(* Clients and processes are under no obligation: no request has to come,  *)
(* no process has to exit, no playlist has to be written.                  *)
(***************************************************************************)
MaxLiveGens == 2

LiveOutputs ==
    {Out.Unknown, Out.Forbidden}

LiveScope ==
    [max_gens |-> MaxLiveGens, max_tasks |-> MaxTasks, analyses |-> Analyses(LiveOutputs),
     popen_fails |-> TRUE, stubborn |-> FALSE, replies |-> FALSE]

InitLive ==
    InitKeys({PyNoneStr})

NextLive ==
    \/ \E s \in StreamIds : HandleStartBegin(s, LiveScope)
    \/ \E s \in StreamIds : HandlePlaylistBegin(s, LiveScope)
    \/ \E i \in 1..MaxReqs : ReqConnectFail(i, LiveScope)
    \/ \E i \in 1..MaxReqs : ReqConnectOk(i, LiveScope)
    \/ \E s \in StreamIds : HandleStop(s, LiveScope)
    \/ \E k \in 1..MaxLiveGens : ProcExit(k, "ff")
    \/ \E s \in StreamIds : PlaylistWritten(s)
    \/ \E k \in 1..MaxLiveGens : MonitorInit(k)
    \/ \E k \in 1..MaxLiveGens : MonitorCheck(k, LiveScope)
    \/ \E k \in 1..MaxLiveGens : MonitorPlaylist(k)
    \/ \E k \in 1..MaxLiveGens : MonitorRestartBegin(k)
    \/ \E k \in 1..MaxLiveGens : MonitorTermWait(k)
    \/ \E k \in 1..MaxLiveGens : MonitorRestartPause(k)
    \/ \E k \in 1..MaxLiveGens : MonitorRestartConnFail(k)
    \/ \E k \in 1..MaxLiveGens : MonitorRestartConnOk(k, LiveScope)

\* The step monitor task k is ready to take, and the step that ends the
\* connectivity check of request i.
MonitorStep(k, scope) ==
    \/ MonitorInit(k)
    \/ MonitorCheck(k, scope)
    \/ MonitorPlaylist(k)
    \/ MonitorRestartBegin(k)
    \/ MonitorTermWait(k)
    \/ MonitorRestartPause(k)
    \/ MonitorRestartConnFail(k)
    \/ MonitorRestartConnOk(k, scope)

RequestStep(i, scope) ==
    ReqConnectFail(i, scope) \/ ReqConnectOk(i, scope)

TasksRun ==
    /\ \A i \in 1..MaxReqs : WF_vars(RequestStep(i, LiveScope))
    /\ \A k \in 1..MaxLiveGens : WF_vars(MonitorStep(k, LiveScope))

SpecLive ==
    InitLive /\ [][NextLive]_vars /\ TasksRun

(***************************************************************************)
(* The pure functions on their own: Init draws an output text, an exit     *)
(* status and a restart count; the actions apply classifier and policy.    *)
(***************************************************************************)
\* Largest restart count the policy functions are applied to.
MaxProbeRestarts == 4

\* One output text for each pattern group of the classifier.
CategoryOutputs ==
    {Out.ConnReset, Out.ConnRefused, Out.TimedOut, Out.Forbidden, Out.NotFound,
     Out.ServerError, Out.Ssl, Out.InvalidData, Out.NoDecoder, Out.Decryption,
     Out.Permission, Out.NoSpace}

\* Outputs of two lines, each line one of the texts above.
TwoLineOutputs ==
    {a \o <<"\n">> \o b : a, b \in CategoryOutputs}

ClassifierOutputs ==
    {<<>>, Out.ConnReset, Out.NotFound, Out.Ssl, Out.Permission, Out.Unknown, Out.PipeBroken,
     Out.ConnRefused, Out.TimedOut, Out.Forbidden, Out.ServerError, Out.InvalidData,
     Out.NoDecoder, Out.Decryption, Out.NoSpace, Out.Timeout404, Out.TlsCorrupt,
     Out.DeniedNoSpace} \cup TwoLineOutputs

ClassifierCodes ==
    {<<>>, <<0>>, <<1>>, <<-15>>, <<255>>}

InitClassify ==
    /\ Init0
    /\ config = [s \in StreamIds |-> [configured |-> FALSE, license_key |-> PyNoneStr]]
    /\ \E o \in ClassifierOutputs, rc \in ClassifierCodes, n \in 0..MaxProbeRestarts :
         probe = [stage |-> "input", output |-> o, return_code |-> rc, restarts |-> n,
                  analysis |-> <<>>, retry |-> FALSE, delay |-> 0]

\* error_analysis = self._analyze_ffmpeg_error(stdout, process.returncode)
ProbeAnalyze ==
    /\ probe.stage = "input"
    /\ probe' = [probe EXCEPT !.stage = "analyzed",
                              !.analysis = analyze_ffmpeg_error(probe.output, probe.return_code)]
    /\ UNCHANGED <<config, sessions, active_streams, gen, mon, dirs, reqs, hist>>

\* should_retry = self._should_retry_error(error_analysis, current_restarts);
\* delay = self._get_retry_delay(error_analysis, current_restarts + 1)
ProbeDecide ==
    /\ probe.stage = "analyzed"
    /\ probe' = [probe EXCEPT !.stage = "decided",
                              !.retry = should_retry_error(probe.analysis, probe.restarts),
                              !.delay = get_retry_delay(probe.analysis, probe.restarts + 1)]
    /\ UNCHANGED <<config, sessions, active_streams, gen, mon, dirs, reqs, hist>>

NextClassify ==
    \/ ProbeAnalyze
    \/ ProbeDecide

SpecClassify ==
    InitClassify /\ [][NextClassify]_vars

(***************************************************************************)
(* ClearKey credentials: ClearKeyDecryptor.parse_clearkey of               *)
(* clearkey_decrypt.py and MPDToHLSStreamer.parse_clearkey_license of      *)
(* app.py, applied to credential strings.  Bytes are numbers 0..255.       *)
(***************************************************************************)
\* Index of the first occurrence of character c in text, 0 if there is none.
Find(c, text) ==
    IF \E i \in 1..Len(text) : text[i] = c
    THEN CHOOSE i \in 1..Len(text) : text[i] = c /\ \A j \in 1..(i - 1) : text[j] # c
    ELSE 0

\* str.split(c, 1) of a text that holds c.
SplitOnce(c, text) ==
    [head |-> SubSeq(text, 1, Find(c, text) - 1),
     tail |-> SubSeq(text, Find(c, text) + 1, Len(text))]

\* str.replace(c, '')
Without(c, text) ==
    SelectSeq(text, LAMBDA x : x # c)

\* str.strip() for blanks.
RECURSIVE Strip(_)
Strip(text) ==
    IF text = <<>> THEN text
    ELSE IF Head(text) = " " THEN Strip(Tail(text))
    ELSE IF text[Len(text)] = " " THEN Strip(SubSeq(text, 1, Len(text) - 1))
    ELSE text

HexDigits ==
    <<"0","1","2","3","4","5","6","7","8","9","a","b","c","d","e","f">>

IsHexDigit(c) ==
    \E v \in 1..16 : HexDigits[v] = LowerChar(c)

HexDigitValue(c) ==
    (CHOOSE v \in 1..16 : HexDigits[v] = LowerChar(c)) - 1

\* binascii.unhexlify: raises for an odd length or a character that is no
\* hexadecimal digit, else gives the bytes.
unhexlify(text) ==
    IF Len(text) % 2 # 0 \/ \E i \in 1..Len(text) : ~ IsHexDigit(text[i])
    THEN [raised |-> TRUE, bytes |-> <<>>]
    ELSE [raised |-> FALSE,
          bytes |-> [i \in 1..(Len(text) \div 2) |->
                       16 * HexDigitValue(text[2 * i - 1]) + HexDigitValue(text[2 * i])]]

\* What a parser gives back: an exception, or a dict whose entries are bytes
\* or str objects; a dict without entries is {}.
ParserRaised ==
    [kind |-> "raised", entries |-> {}, key_id |-> <<>>, key |-> <<>>, type |-> "none"]

ParsedDict(entries, key_id, key, type) ==
    [kind |-> "dict", entries |-> entries, key_id |-> key_id, key |-> key, type |-> type]

\* ClearKeyDecryptor.parse_clearkey (clearkey_decrypt.py).
parse_clearkey(license_key) ==
    IF Find(":", license_key) = 0 THEN ParserRaised
    ELSE LET parts == SplitOnce(":", license_key)
             key_id == unhexlify(Without("-", parts.head))
             key == unhexlify(Without("-", parts.tail))
         IN  IF key_id.raised \/ key.raised THEN ParserRaised
             ELSE ParsedDict({"key_id", "key"}, key_id.bytes, key.bytes, "bytes")

\* MPDToHLSStreamer.parse_clearkey_license (app.py).
parse_clearkey_license(license_key) ==
    IF Find(":", license_key) # 0
    THEN LET parts == SplitOnce(":", license_key)
         IN  ParsedDict({"key_id", "key"}, Strip(parts.head), Strip(parts.tail), "str")
    ELSE ParsedDict({}, <<>>, <<>>, "none")

\* The halves credential strings are made of: hexadecimal in either case,
\* empty, of odd length, not hexadecimal, with dashes, with a blank.
CredentialHalves ==
    {<<>>, <<"0","a","1","b">>, <<"2","C","3","D">>, <<"0","a","1">>, <<"z","z">>,
     <<"0","a","-","1","b">>, <<" ","2","c","3","d">>, <<"f","f","0","0","7","f","8","0">>}

CredentialTexts ==
    {a \o <<":">> \o b : a, b \in CredentialHalves}
    \cup CredentialHalves
    \cup {<<"i","n","v","a","l","i","d","_","k","e","y","_","f","o","r","m","a","t">>}

InitParse ==
    /\ Init0
    /\ config = [s \in StreamIds |-> [configured |-> FALSE, license_key |-> PyNoneStr]]
    /\ \E text \in CredentialTexts :
         probe = [stage |-> "credential", text |-> text, parser |-> "none",
                  result |-> ParserRaised]

\* clearkey_info = self.parse_clearkey(license_key)   (clearkey_decrypt.py:218)
ParseClearKey ==
    /\ probe.stage = "credential"
    /\ probe' = [probe EXCEPT !.stage = "parsed", !.parser = "parse_clearkey",
                              !.result = parse_clearkey(probe.text)]
    /\ UNCHANGED <<config, sessions, active_streams, gen, mon, dirs, reqs, hist>>

\* clearkey = self.parse_clearkey_license(license_key)   (app.py:547)
ParseClearKeyLicense ==
    /\ probe.stage = "credential"
    /\ probe' = [probe EXCEPT !.stage = "parsed", !.parser = "parse_clearkey_license",
                              !.result = parse_clearkey_license(probe.text)]
    /\ UNCHANGED <<config, sessions, active_streams, gen, mon, dirs, reqs, hist>>

NextParse ==
    \/ ParseClearKey
    \/ ParseClearKeyLicense

SpecParse ==
    InitParse /\ [][NextParse]_vars

(***************************************************************************)
(* Segment descriptors: ClearKeyDecryptor._parse_timeline_segments of      *)
(* clearkey_decrypt.py, applied to SegmentTimeline elements.  An <S>       *)
(* element is its d and r attributes, each absent or a decimal text.       *)
(***************************************************************************)
MaxEntries == 2

RECURSIVE DigitsToNat(_)
DigitsToNat(text) ==
    IF text = <<>> THEN 0
    ELSE 10 * DigitsToNat(SubSeq(text, 1, Len(text) - 1))
         + (CHOOSE v \in 0..9 : DigitChars[v + 1] = text[Len(text)])

\* int(text) for a decimal text with an optional sign.
PyInt(text) ==
    IF Head(text) = "-" THEN 0 - DigitsToNat(Tail(text)) ELSE DigitsToNat(text)

\* int(s_elem.get(name, 0))
AttrInt(attr) ==
    IF attr.some THEN PyInt(attr.text) ELSE 0

\* str.replace(pat, rep): every occurrence, left to right.
RECURSIVE Replace(_, _, _)
Replace(text, pat, rep) ==
    IF Len(text) < Len(pat) THEN text
    ELSE IF SubSeq(text, 1, Len(pat)) = pat
         THEN rep \o Replace(SubSeq(text, Len(pat) + 1, Len(text)), pat, rep)
         ELSE <<Head(text)>> \o Replace(Tail(text), pat, rep)

RepresentationIDVar ==
    <<"$","R","e","p","r","e","s","e","n","t","a","t","i","o","n","I","D","$">>

NumberVar ==
    <<"$","N","u","m","b","e","r","$">>

SchemeMark ==
    <<":","/","/">>

\* urllib.parse.urljoin for a base that ends with '/': a reference with a
\* scheme stands for itself, a relative one is appended to the base.
urljoin(base_url, ref) ==
    IF Contains(SchemeMark, ref) THEN ref ELSE base_url \o ref

\* repeat = int(s_elem.get('r', 0)) + 1, without the entry itself.
repeat_without_first(s_elem) ==
    AttrInt(s_elem.r)

\* repeat = int(s_elem.get('r', 0)) + 1
repeat(s_elem) ==
    AttrInt(s_elem.r) + 1

\* range(repeat) has no element for a repeat below 1.
RangeLen(n) ==
    IF n < 0 THEN 0 ELSE n

MediaSegment(s_elem, segment_number, media_template, rep_id, base_url) ==
    [type |-> "media",
     url |-> urljoin(base_url,
                     Replace(Replace(media_template, RepresentationIDVar, rep_id),
                             NumberVar, IntToStr(segment_number))),
     number |-> segment_number,
     duration |-> AttrInt(s_elem.d),
     representation_id |-> rep_id]

\* The loop over timeline.iter('S'), from the given segment_number on.
RECURSIVE TimelineLoop(_, _, _, _, _)
TimelineLoop(entries, segment_number, media_template, rep_id, base_url) ==
    IF entries = <<>> THEN <<>>
    ELSE LET s_elem == Head(entries)
             n == RangeLen(repeat(s_elem))
         IN  [k \in 1..n |->
                MediaSegment(s_elem, segment_number + k - 1, media_template, rep_id, base_url)]
             \o TimelineLoop(Tail(entries), segment_number + n, media_template, rep_id, base_url)

parse_timeline_segments(timeline, media_template, init_template, rep_id, base_url) ==
    (IF Truthy(init_template)
     THEN <<[type |-> "init",
             url |-> urljoin(base_url, Replace(init_template.text, RepresentationIDVar, rep_id)),
             representation_id |-> rep_id]>>
     ELSE <<>>)
    \o TimelineLoop(timeline, 1, media_template, rep_id, base_url)

\* <S> elements: d and r absent or given.
SElements ==
    [d : {PyNoneStr, PyStr(<<"2">>), PyStr(<<"3">>)},
     r : {PyNoneStr, PyStr(<<"0">>), PyStr(<<"2">>), PyStr(<<"-","1">>)}]

RECURSIVE SeqsUpTo(_, _)
SeqsUpTo(S, n) ==
    IF n = 0 THEN {<<>>}
    ELSE LET shorter == SeqsUpTo(S, n - 1)
         IN  shorter \cup {Append(q, x) : q \in shorter, x \in S}

Timelines ==
    SeqsUpTo(SElements, MaxEntries)

MediaTemplate ==
    <<"s","e","g","-">> \o RepresentationIDVar \o <<"-">> \o NumberVar \o <<".","m","4","s">>

InitTemplates ==
    {PyNoneStr, PyStr(<<"i","n","i","t","-">> \o RepresentationIDVar \o <<".","m","p","4">>)}

BaseUrl ==
    <<"h","t","t","p",":","/","/","h","/","p","/">>

RepId ==
    <<"v","1">>

InitTimeline ==
    /\ Init0
    /\ config = [s \in StreamIds |-> [configured |-> FALSE, license_key |-> PyNoneStr]]
    /\ \E timeline \in Timelines, init_template \in InitTemplates :
         probe = [stage |-> "timeline", timeline |-> timeline,
                  init_template |-> init_template, segments |-> <<>>]

\* segments = self._parse_timeline_segments(timeline, media_template,
\*                                          init_template, rep_id, base_url)
ParseTimeline ==
    /\ probe.stage = "timeline"
    /\ probe' = [probe EXCEPT !.stage = "segments",
                              !.segments = parse_timeline_segments(probe.timeline, MediaTemplate,
                                                                   probe.init_template, RepId, BaseUrl)]
    /\ UNCHANGED <<config, sessions, active_streams, gen, mon, dirs, reqs, hist>>

NextTimeline ==
    ParseTimeline

SpecTimeline ==
    InitTimeline /\ [][NextTimeline]_vars

(***************************************************************************)
(* Decryption of a stream: ClearKeyDecryptor.decrypt_dash_stream,          *)
(* _decrypt_segments, download_segment and decrypt_segment of              *)
(* clearkey_decrypt.py, one action per block of code between two awaits.   *)
(* Data are sequences of cipher blocks; a block is a number below          *)
(* BlockSpace, PartialBlock is a trailing block that is not complete.      *)
(***************************************************************************)
MaxRuns == 2
BlockSpace == 16

PartialBlock ==
    0 - 1

\* The last block of a PKCS7-padded plaintext that ends on a block boundary.
PadBlock ==
    0

Key16a ==
    <<"0","0","1","1","2","2","3","3","4","4","5","5","6","6","7","7","8","8","9","9","a","a","b","b","c","c","d","d","e","e","f","f",":","0","1","2","3","4","5","6","7","8","9","a","b","c","d","e","f","0","1","2","3","4","5","6","7","8","9","a","b","c","d","e","f">>

Key16b ==
    <<"0","0","1","1","2","2","3","3","4","4","5","5","6","6","7","7","8","8","9","9","a","a","b","b","c","c","d","d","e","e","f","f",":","f","f","e","e","d","d","c","c","b","b","a","a","9","9","8","8","7","7","6","6","5","5","4","4","3","3","2","2","1","1","0","0">>

NoColonKey ==
    <<"i","n","v","a","l","i","d","_","k","e","y","_","f","o","r","m","a","t">>

DecryptLicenses ==
    {Key16a, Key16b, KeyHex, NoColonKey}

\* AES.new(key, AES.MODE_CBC, iv) raises for a key that is not 16, 24 or 32
\* bytes long; cipher.decrypt raises for data that is not whole blocks.
AesAccepts(encrypted_data, key) ==
    /\ Len(key) \in {16, 24, 32}
    /\ \A i \in 1..Len(encrypted_data) : encrypted_data[i] # PartialBlock

\* cipher.decrypt in CBC mode with the zero IV: block i is the key's block
\* decryption of cipher block i combined with cipher block i-1.
CbcDecrypt(encrypted_data, key) ==
    [i \in 1..Len(encrypted_data) |->
       (encrypted_data[i] + key[1] + (IF i = 1 THEN 0 ELSE encrypted_data[i - 1])) % BlockSpace]

\* unpad(decrypted_data, AES.block_size), the data kept where it raises.
Unpadded(data) ==
    IF data # <<>> /\ data[Len(data)] = PadBlock
    THEN SubSeq(data, 1, Len(data) - 1)
    ELSE data

decrypt_segment(encrypted_data, key) ==
    IF AesAccepts(encrypted_data, key)
    THEN Unpadded(CbcDecrypt(encrypted_data, key))
    ELSE encrypted_data

\* download_segment without the test of response.status.
download_segment_unchecked(body, status) ==
    [raised |-> FALSE, data |-> body]

download_segment(body, status) ==
    IF status # 200
    THEN [raised |-> TRUE, data |-> <<>>]
    ELSE [raised |-> FALSE, data |-> body]

\* open(output_file, 'ab') in place of 'wb'.
open_ab(file) ==
    [exists |-> TRUE, bytes |-> file.bytes, writes |-> 0]

\* open(output_file, 'wb')
open_wb(file) ==
    [exists |-> TRUE, bytes |-> <<>>, writes |-> 0]

HttpStatuses ==
    {200, 404}

AudioRepId ==
    <<"a","1">>

VideoDescriptors(init_template) ==
    parse_timeline_segments(<<[d |-> PyStr(<<"2">>), r |-> PyStr(<<"1">>)]>>,
                            MediaTemplate, init_template, RepId, BaseUrl)

AudioDescriptors(init_template) ==
    parse_timeline_segments(<<[d |-> PyStr(<<"3">>), r |-> PyNoneStr]>>,
                            MediaTemplate, init_template, AudioRepId, BaseUrl)

\* media_info = self.parse_mpd(mpd_content, base_url): the manifests served.
MediaInfos ==
    {[video_segments |-> v, audio_segments |-> a] :
       v \in {<<>>} \cup {VideoDescriptors(i) : i \in InitTemplates},
       a \in {<<>>} \cup {AudioDescriptors(i) : i \in InitTemplates}}

\* What the server holds under a segment URL: bodies differ from URL to URL,
\* one of them is not a whole number of blocks.
ServedUrls ==
    LET all == VideoDescriptors(CHOOSE i \in InitTemplates : Truthy(i))
               \o AudioDescriptors(CHOOSE i \in InitTemplates : Truthy(i))
    IN  [j \in 1..Len(all) |-> all[j].url]

ServedBody(url) ==
    LET j == CHOOSE j \in 1..Len(ServedUrls) : ServedUrls[j] = url
    IN  IF j = 5 THEN <<j, PartialBlock>> ELSE <<j, BlockSpace - 1 - j>>

NoFile ==
    [exists |-> FALSE, bytes |-> <<>>, writes |-> 0]

NoRun ==
    [stage |-> "none", files |-> [video |-> NoFile, audio |-> NoFile], returned |-> {}]

InitDecrypt ==
    /\ Init0
    /\ config = [s \in StreamIds |-> [configured |-> FALSE, license_key |-> PyNoneStr]]
    /\ \E license_key \in DecryptLicenses, media_info \in MediaInfos :
         probe = [stage |-> "idle", run |-> 1, license_key |-> license_key, key |-> <<>>,
                  media_info |-> media_info, track |-> "none", pos |-> 0,
                  files |-> [video |-> NoFile, audio |-> NoFile],
                  log |-> <<>>, results |-> {}, returned |-> {}, previous |-> NoRun]

DecryptUnchanged ==
    UNCHANGED <<config, sessions, active_streams, gen, mon, dirs, reqs, hist>>

Segments(p, track) ==
    IF track = "video" THEN p.media_info.video_segments ELSE p.media_info.audio_segments

\* _decrypt_segments up to its first await: the output file is opened.
StartTrack(p, track) ==
    [p EXCEPT !.track = track, !.pos = 1, !.files[track] = open_wb(p.files[track])]

\* return results
Return(p) ==
    [p EXCEPT !.stage = "returned", !.track = "none", !.returned = p.results]

\* if media_info['audio_segments']: ...
AfterVideo(p) ==
    IF p.media_info.audio_segments # <<>> THEN StartTrack(p, "audio") ELSE Return(p)

\* if media_info['video_segments']: ...
AfterParse(p) ==
    IF p.media_info.video_segments # <<>> THEN StartTrack(p, "video") ELSE AfterVideo(p)

\* decrypt_dash_stream is called: the credential is parsed, the manifest is
\* requested.
DecryptCall ==
    /\ probe.stage = "idle"
    /\ LET clearkey_info == parse_clearkey(probe.license_key)
       IN  probe' = IF clearkey_info.kind = "raised"
                    THEN [probe EXCEPT !.stage = "raised"]
                    ELSE [probe EXCEPT !.stage = "fetch", !.key = clearkey_info.key]
    /\ DecryptUnchanged

\* fetch_mpd answers; the manifest is parsed and the first track is begun.
DecryptFetched ==
    /\ probe.stage = "fetch"
    /\ \E status \in HttpStatuses :
         probe' = IF status # 200
                  THEN [probe EXCEPT !.stage = "raised"]
                  ELSE AfterParse([probe EXCEPT !.stage = "segments"])
    /\ DecryptUnchanged

\* download_segment answers for the segment at hand; it is decrypted and
\* written, and the loop goes on to the next await.
DecryptSegment ==
    /\ probe.stage = "segments"
    /\ \E status \in HttpStatuses :
         LET track == probe.track
             segments == Segments(probe, track)
             segment == segments[probe.pos]
             got == download_segment(ServedBody(segment.url), status)
             logged == [probe EXCEPT !.log = Append(@, [track |-> track, index |-> probe.pos,
                                                         status |-> status])]
         IN  IF got.raised
             THEN probe' = [logged EXCEPT !.stage = "raised"]
             ELSE LET data == IF segment.type = "media"
                              THEN decrypt_segment(got.data, probe.key)
                              ELSE got.data
                      written == [logged EXCEPT !.files[track].bytes = @ \o data,
                                                !.files[track].writes = @ + 1,
                                                !.pos = @ + 1]
                  IN  IF probe.pos < Len(segments)
                      THEN probe' = written
                      ELSE LET done == [written EXCEPT !.results = @ \cup {track}]
                           IN  probe' = IF track = "video" THEN AfterVideo(done) ELSE Return(done)
    /\ DecryptUnchanged

\* The caller calls decrypt_dash_stream again with the same arguments.
DecryptAgain ==
    /\ probe.stage \in {"returned", "raised"}
    /\ probe.run < MaxRuns
    /\ probe' = [probe EXCEPT !.stage = "idle", !.run = @ + 1, !.key = <<>>, !.track = "none",
                              !.pos = 0, !.log = <<>>, !.results = {}, !.returned = {},
                              !.previous = [stage |-> probe.stage, files |-> probe.files,
                                            returned |-> probe.returned]]
    /\ DecryptUnchanged

NextDecrypt ==
    \/ DecryptCall
    \/ DecryptFetched
    \/ DecryptSegment
    \/ DecryptAgain

SpecDecrypt ==
    InitDecrypt /\ [][NextDecrypt]_vars

(***************************************************************************)
(* Manifests: ClearKeyDecryptor.parse_mpd of clearkey_decrypt.py and       *)
(* DashClearKeyDecryptor._parse_mpd of decrypt_dash.py, applied to the     *)
(* element tree of an MPD.  An AdaptationSet is its contentType and        *)
(* mimeType attributes, its own SegmentTemplate and its Representations; a *)
(* Representation is its id and its own SegmentTemplate.                   *)
(***************************************************************************)
\* AdaptationSets of a manifest, Representations of an AdaptationSet.
MaxSets == 2
MaxReps == 2

VideoWord ==
    <<"v","i","d","e","o">>

AudioWord ==
    <<"a","u","d","i","o">>

NoTemplate ==
    [present |-> FALSE, media |-> <<>>, initialization |-> PyNoneStr,
     timeline |-> [present |-> FALSE, entries |-> <<>>]]

\* representation.find('SegmentTemplate'), else adaptation_set.find(...)
segment_template(representation, adaptation_set) ==
    IF representation.template.present THEN representation.template
    ELSE adaptation_set.template

\* The segments of one Representation: none without a SegmentTemplate or
\* without a SegmentTimeline in it.
RepresentationSegments(representation, adaptation_set, base_url) ==
    LET t == segment_template(representation, adaptation_set)
    IN  IF t.present /\ t.timeline.present
        THEN parse_timeline_segments(t.timeline.entries, t.media, t.initialization,
                                     representation.id, base_url)
        ELSE <<>>

\* The list the segments of an AdaptationSet are added to.
TrackOf(adaptation_set) ==
    IF Contains(VideoWord, adaptation_set.contentType) \/ Contains(VideoWord, adaptation_set.mimeType)
    THEN "video"
    ELSE IF Contains(AudioWord, adaptation_set.contentType)
            \/ Contains(AudioWord, adaptation_set.mimeType)
    THEN "audio"
    ELSE "none"

\* The loop over adaptation_set.iter('Representation').
RECURSIVE RepresentationLoop(_, _, _, _)
RepresentationLoop(representations, adaptation_set, media_info, base_url) ==
    IF representations = <<>> THEN media_info
    ELSE LET segments == RepresentationSegments(Head(representations), adaptation_set, base_url)
             track == TrackOf(adaptation_set)
             extended == CASE track = "video" ->
                                [media_info EXCEPT !.video_segments = @ \o segments]
                           [] track = "audio" ->
                                [media_info EXCEPT !.audio_segments = @ \o segments]
                           [] OTHER -> media_info
         IN  RepresentationLoop(Tail(representations), adaptation_set, extended, base_url)

\* The loop over root.iter('AdaptationSet').
RECURSIVE AdaptationSetLoop(_, _, _)
AdaptationSetLoop(adaptation_sets, media_info, base_url) ==
    IF adaptation_sets = <<>> THEN media_info
    ELSE AdaptationSetLoop(Tail(adaptation_sets),
                           RepresentationLoop(Head(adaptation_sets).representations,
                                              Head(adaptation_sets), media_info, base_url),
                           base_url)

parse_mpd(mpd, base_url) ==
    AdaptationSetLoop(mpd, [video_segments |-> <<>>, audio_segments |-> <<>>], base_url)

\* range(1, 6) of decrypt_dash.py: the segments _parse_mpd makes for one
\* Representation.
DashSegmentCount == 5

\* The body of 'for i in range(1, 6)': segment_url is assigned the template
\* with $Number$ replaced, then the template with $RepresentationID$ replaced.
DashSegment(media_template, rep_id, i, base_url) ==
    LET numbered == Replace(media_template, NumberVar, IntToStr(i))
        segment_url == Replace(media_template, RepresentationIDVar, rep_id)
    IN  [url |-> urljoin(base_url, segment_url), number |-> i]

RECURSIVE DashRepresentationLoop(_, _)
DashRepresentationLoop(representations, base_url) ==
    IF representations = <<>> THEN <<>>
    ELSE LET representation == Head(representations)
             t == representation.template
         IN  (IF t.present /\ t.media # <<>>
              THEN [i \in 1..DashSegmentCount |->
                      DashSegment(t.media, representation.id, i, base_url)]
              ELSE <<>>)
             \o DashRepresentationLoop(Tail(representations), base_url)

\* DashClearKeyDecryptor._parse_mpd: the list of segments it returns.
RECURSIVE Dash_parse_mpd(_, _)
Dash_parse_mpd(mpd, base_url) ==
    IF mpd = <<>> THEN <<>>
    ELSE DashRepresentationLoop(Head(mpd).representations, base_url)
         \o Dash_parse_mpd(Tail(mpd), base_url)

\* The manifests: SegmentTemplates with a timeline of two segments, of one
\* segment, and without a timeline; Representations with and without a
\* SegmentTemplate of their own.
TemplateOf(entries, with_timeline) ==
    [present |-> TRUE, media |-> MediaTemplate,
     initialization |-> PyStr(<<"i","n","i","t","-">> \o RepresentationIDVar \o <<".","m","p","4">>),
     timeline |-> [present |-> with_timeline, entries |-> entries]]

TwoSegments ==
    TemplateOf(<<[d |-> PyStr(<<"2">>), r |-> PyStr(<<"1">>)]>>, TRUE)

OneSegment ==
    TemplateOf(<<[d |-> PyStr(<<"3">>), r |-> PyNoneStr]>>, TRUE)

Representations ==
    {[id |-> <<"r","1">>, template |-> TwoSegments],
     [id |-> <<"r","2">>, template |-> OneSegment],
     [id |-> <<"r","3">>, template |-> NoTemplate]}

\* contentType and mimeType of an AdaptationSet.
SetKinds ==
    {[contentType |-> VideoWord, mimeType |-> <<>>],
     [contentType |-> <<>>, mimeType |-> AudioWord \o <<"/","m","p","4">>],
     [contentType |-> AudioWord, mimeType |-> VideoWord \o <<"/","m","p","4">>],
     [contentType |-> <<>>, mimeType |-> <<"a","p","p","l","i","c","a","t","i","o","n","/","m","p","4">>]}

AdaptationSets ==
    {[contentType |-> k.contentType, mimeType |-> k.mimeType, template |-> OneSegment,
      representations |-> reps] :
       k \in SetKinds, reps \in SeqsUpTo(Representations, MaxReps) \ {<<>>}}

Manifests ==
    SeqsUpTo(AdaptationSets, MaxSets) \ {<<>>}

InitManifest ==
    /\ Init0
    /\ config = [s \in StreamIds |-> [configured |-> FALSE, license_key |-> PyNoneStr]]
    /\ \E mpd \in Manifests :
         probe = [stage |-> "mpd", mpd |-> mpd,
                  media_info |-> [video_segments |-> <<>>, audio_segments |-> <<>>],
                  pos |-> 0, files |-> [video |-> <<>>, audio |-> <<>>],
                  dash |-> [parsed |-> FALSE, segments |-> <<>>]]

\* The track _decrypt_segments is called for next, from the video track or
\* from the audio track on: a track without segments is passed over.
NextTrack(media_info, from) ==
    IF from = "video" /\ media_info.video_segments # <<>> THEN "video"
    ELSE IF media_info.audio_segments # <<>> THEN "audio"
    ELSE "done"

\* media_info = self.parse_mpd(mpd_content, base_url) in decrypt_dash_stream,
\* up to the first await of _decrypt_segments.
ParseMpd ==
    /\ probe.stage = "mpd"
    /\ LET media_info == parse_mpd(probe.mpd, BaseUrl)
       IN  probe' = [probe EXCEPT !.media_info = media_info,
                                  !.stage = NextTrack(media_info, "video"),
                                  !.pos = 1]
    /\ DecryptUnchanged

\* One round of the loop of _decrypt_segments, the download succeeding: what
\* is written to the track's file is kept as the segment's descriptor.
WriteSegment ==
    /\ probe.stage \in {"video", "audio"}
    /\ LET track == probe.stage
           segments == Segments(probe, track)
           written == [probe EXCEPT !.files[track] = Append(@, segments[probe.pos])]
       IN  probe' = IF probe.pos < Len(segments)
                    THEN [written EXCEPT !.pos = @ + 1]
                    ELSE [written EXCEPT !.pos = 1,
                                         !.stage = IF track = "video"
                                                   THEN NextTrack(probe.media_info, "audio")
                                                   ELSE "done"]
    /\ DecryptUnchanged

\* encryption_info, segments = self._parse_mpd(mpd_content, base_url) of
\* decrypt_dash.py, on the same manifest.
DashParseMpd ==
    /\ probe.stage \in {"mpd", "video", "audio", "done"}
    /\ ~ probe.dash.parsed
    /\ probe' = [probe EXCEPT !.dash = [parsed |-> TRUE,
                                        segments |-> Dash_parse_mpd(probe.mpd, BaseUrl)]]
    /\ DecryptUnchanged

NextManifest ==
    \/ ParseMpd
    \/ WriteSegment
    \/ DashParseMpd

SpecManifest ==
    InitManifest /\ [][NextManifest]_vars

(***************************************************************************)
(* The decrypt tool in pipe mode: decrypt_dash_to_pipe and main of         *)
(* decrypt_dash.py.  The downloader it wraps writes some chunks to its     *)
(* stdout, closes it and exits with a status.                              *)
(***************************************************************************)
\* Chunks of 8192 bytes the downloader writes before it closes its stdout.
MaxChunks == 3

\* Popen.wait() of the downloader: its exit status, or minus the number of
\* the signal that ended it.
DownloaderCodes ==
    {0, 1, 2, 0 - 9, 0 - 15}

\* The status the operating system keeps of a process that ends in
\* sys.exit(exit_code): the low eight bits.
sys_exit(exit_code) ==
    exit_code % 256

\* A tool that reports success whatever the downloader's status was.
wait_result_always_zero(returncode) ==
    0

\* returncode = process.wait(): return 0 if it is 0, else return returncode.
wait_result(returncode) ==
    IF returncode = 0 THEN 0 ELSE returncode

InitPipeTool ==
    /\ Init0
    /\ config = [s \in StreamIds |-> [configured |-> FALSE, license_key |-> PyNoneStr]]
    /\ \E chunks \in 0..MaxChunks, returncode \in DownloaderCodes :
         probe = [stage |-> "tool", pc |-> "start", chunks |-> chunks,
                  returncode |-> returncode, started |-> FALSE, forwarded |-> 0,
                  write_failed |-> FALSE, killed |-> FALSE, exit_status |-> 0]

\* main() ends the process with what decrypt_dash_to_pipe returned.
ToolExit(p, exit_code) ==
    [p EXCEPT !.pc = "exited", !.exit_status = sys_exit(exit_code)]

\* decrypt_with_yt_dlp_to_pipe: Popen starts the downloader, or raises and
\* None is returned, for which decrypt_dash_to_pipe returns 1.
PipeToolStart ==
    /\ probe.stage = "tool"
    /\ probe.pc = "start"
    /\ \E popen_ok \in BOOLEAN :
         probe' = IF popen_ok
                  THEN [probe EXCEPT !.pc = "forward", !.started = TRUE]
                  ELSE ToolExit(probe, 1)
    /\ DecryptUnchanged

\* One round of the forwarding loop with a chunk read: it is written to
\* sys.stdout.buffer and flushed, or the write raises (the transcoder has
\* gone), the downloader is killed and 1 is returned.
PipeToolForward ==
    /\ probe.stage = "tool"
    /\ probe.pc = "forward"
    /\ probe.forwarded < probe.chunks
    /\ \E write_ok \in BOOLEAN :
         probe' = IF write_ok
                  THEN [probe EXCEPT !.forwarded = @ + 1]
                  ELSE ToolExit([probe EXCEPT !.write_failed = TRUE, !.killed = TRUE], 1)
    /\ DecryptUnchanged

\* The round that reads b'': the loop ends, process.wait() gives the status.
PipeToolWait ==
    /\ probe.stage = "tool"
    /\ probe.pc = "forward"
    /\ probe.forwarded = probe.chunks
    /\ probe' = ToolExit(probe, wait_result(probe.returncode))
    /\ DecryptUnchanged

NextPipeTool ==
    \/ PipeToolStart
    \/ PipeToolForward
    \/ PipeToolWait

SpecPipeTool ==
    InitPipeTool /\ [][NextPipeTool]_vars

(***************************************************************************)
(* The stale sweep and the deletion of a stream: cleanup_old_sessions,     *)
(* cleanup_session, handle_delete_stream.  Both streams are configured and *)
(* the time of day is kept.                                                *)
(***************************************************************************)
\* Session generations in a behaviour of SpecSweep.
MaxSweepGens == 2

\* The age in seconds beyond which cleanup_old_sessions removes a session.
StaleAfter == 3600

\* The instants at which something happens, in seconds.
ClockValues ==
    {0, 1, 3601}

SweepOutputs ==
    {Out.ConnReset}

SweepScope ==
    [max_gens |-> MaxSweepGens, max_tasks |-> MaxTasks, analyses |-> Analyses(SweepOutputs),
     popen_fails |-> FALSE, stubborn |-> TRUE, replies |-> FALSE]

InitSweep ==
    /\ Init0
    /\ config = [s \in StreamIds |-> [configured |-> TRUE, license_key |-> PyNoneStr]]
    /\ probe = [stage |-> "clock", now |-> 0]

\* Time passes.
Tick ==
    /\ probe.stage = "clock"
    /\ \E t \in ClockValues :
         /\ t > probe.now
         /\ probe' = [probe EXCEPT !.now = t]
    /\ UNCHANGED <<config, sessions, active_streams, gen, mon, dirs, reqs, hist>>

\* cleanup_session(stream_id) on x = [st, dirs, raised], the processes ending
\* as in out: without a session nothing; else terminate() and wait(timeout=5),
\* which raises when a process does not exit, else rmtree and del.
cleanup_session(x, s, out) ==
    LET g == x.st.sessions[s]
        st1 == [x.st EXCEPT !.gen[g].dec = out.dec, !.gen[g].ff = out.ff]
    IN  IF g = 0 THEN x
        ELSE IF out.ok
        THEN [st |-> [st1 EXCEPT !.sessions[s] = 0],
              dirs |-> [x.dirs EXCEPT ![s] = [exists |-> FALSE, playlist |-> FALSE]],
              raised |-> FALSE]
        ELSE [st |-> st1, dirs |-> x.dirs, raised |-> TRUE]

\* The ways cleanup_session(stream_id) can end.
Cleanups(x, s, stubborn) ==
    IF x.st.sessions[s] = 0 THEN {x}
    ELSE {cleanup_session(x, s, out) :
            out \in CleanupOutcomes(x.st.gen[x.st.sessions[s]], stubborn)}

\* The first loop of cleanup_old_sessions: the stream ids whose session was
\* created more than 3600 s ago.
expired_sessions(st) ==
    {s \in StreamIds : /\ st.sessions[s] # 0
                       /\ Clock - st.gen[st.sessions[s]].created_at > StaleAfter}

\* Stream ids in the order in which self.sessions.items() yields them.
RECURSIVE InDictOrder(_, _)
InDictOrder(st, ids) ==
    IF ids = {} THEN <<>>
    ELSE LET first == CHOOSE s \in ids :
                        \A t \in ids : st.gen[st.sessions[s]].slot <= st.gen[st.sessions[t]].slot
         IN  <<first>> \o InDictOrder(st, ids \ {first})

\* The second loop of cleanup_old_sessions: cleanup_session for each expired
\* id in turn; an exception ends the loop.
RECURSIVE SweepFrom(_, _, _)
SweepFrom(x, ids, stubborn) ==
    IF ids = <<>> THEN {x}
    ELSE UNION {IF y.raised THEN {y} ELSE SweepFrom(y, Tail(ids), stubborn) :
                  y \in Cleanups(x, Head(ids), stubborn)}

cleanup_old_sessions(scope) ==
    /\ probe.stage = "clock"
    /\ \E y \in SweepFrom([st |-> Cur, dirs |-> dirs, raised |-> FALSE],
                           InDictOrder(Cur, expired_sessions(Cur)), scope.stubborn) :
         /\ Commit(y.st)
         /\ dirs' = y.dirs
    /\ UNCHANGED <<config, reqs, hist, probe>>

\* handle_delete_stream: cleanup_session if the stream has a session, then
\* the stream leaves the configuration and active_streams; 404 if it is not
\* configured, 400 if cleanup_session raised.
HandleDelete(s, scope) ==
    /\ \E y \in Cleanups([st |-> Cur, dirs |-> dirs, raised |-> FALSE], s, scope.stubborn) :
         /\ dirs' = y.dirs
         /\ IF y.raised \/ ~ Configured(s)
            THEN Commit(y.st) /\ UNCHANGED config
            ELSE /\ Commit([y.st EXCEPT !.active[s] = NoActive])
                 /\ config' = [config EXCEPT ![s].configured = FALSE]
    /\ UNCHANGED <<reqs, hist, probe>>

NextSweep ==
    \/ \E s \in StreamIds : HandleStartBegin(s, SweepScope)
    \/ \E i \in 1..MaxReqs : ReqConnectFail(i, SweepScope)
    \/ \E i \in 1..MaxReqs : ReqConnectOk(i, SweepScope)
    \/ \E s \in StreamIds : HandleStop(s, SweepScope)
    \/ \E s \in StreamIds : HandleDelete(s, SweepScope)
    \/ cleanup_old_sessions(SweepScope)
    \/ Tick
    \/ \E k \in 1..MaxSweepGens, which \in {"dec", "ff"} : ProcExit(k, which)
    \/ \E s \in StreamIds : PlaylistWritten(s)
    \/ \E k \in 1..MaxSweepGens : MonitorInit(k)
    \/ \E k \in 1..MaxSweepGens : MonitorCheck(k, SweepScope)
    \/ \E k \in 1..MaxSweepGens : MonitorPlaylist(k)
    \/ \E k \in 1..MaxSweepGens : MonitorRestartBegin(k)
    \/ \E k \in 1..MaxSweepGens : MonitorTermWait(k)
    \/ \E k \in 1..MaxSweepGens : MonitorRestartPause(k)
    \/ \E k \in 1..MaxSweepGens : MonitorRestartConnFail(k)
    \/ \E k \in 1..MaxSweepGens : MonitorRestartConnOk(k, SweepScope)

SpecSweep ==
    InitSweep /\ [][NextSweep]_vars

(***************************************************************************)
(* What a client sees: handle_get_stream_status.                           *)
(***************************************************************************)
\* The fields of the status response that depend on the state.  The response
\* has no key for an error text; restart_count is in process_info only when
\* the transcoder has exited.
StatusReport(s) ==
    LET registered == sessions[s] # 0
        exited == registered /\ ~ Alive(gen[sessions[s]].ff)
    IN  [running |-> registered,
         status |-> IF active_streams[s].present THEN active_streams[s].status ELSE "stopped",
         process_status |-> IF ~ registered THEN "stopped"
                            ELSE IF exited THEN "exited" ELSE "running",
         restart_count |-> IF exited THEN <<gen[sessions[s]].restart_count>> ELSE <<>>,
         error |-> PyNoneStr]

(***************************************************************************)
(* Vocabulary of the properties.                                           *)
(***************************************************************************)
Registered(s) ==
    sessions[s] # 0

\* The monitor tasks that have still to look at the processes of session g.
Watchers(s, g) ==
    {k \in DOMAIN mon : \/ mon[k].stream = s /\ mon[k].pc = "init"
                        \/ mon[k].pc = "settle" /\ mon[k].sess = g}

\* Classifications of the network class: connection reset, connection
\* refused, timeout, TLS/SSL.
IsNetworkClass(msg) ==
    msg \in {Msg.ConnReset, Msg.ConnRefused, Msg.Timeout, Msg.Tls}

\* Classifications of the categories forbidden/403, not-found/404,
\* permission-denied, disk-full and missing-decoder.
NonRetryableCategories ==
    {Msg.Forbidden, Msg.NotFound, Msg.Permission, Msg.DiskFull, Msg.NoDecoder}

HexChars ==
    {DigitChars[i] : i \in 1..Len(DigitChars)} \cup {"a", "b", "c", "d", "e", "f", "A", "B", "C", "D", "E", "F"}

IsHex(t) ==
    /\ Len(t) > 0
    /\ Len(t) % 2 = 0
    /\ \A i \in 1..Len(t) : t[i] \in HexChars

\* A credential of the form <key_id_hex>:<key_hex>.
IsClearKeyCredential(k) ==
    /\ k.some
    /\ \E i \in 1..Len(k.text) :
         /\ k.text[i] = ":"
         /\ IsHex(SubSeq(k.text, 1, i - 1))
         /\ IsHex(SubSeq(k.text, i + 1, Len(k.text)))

\* Monitor k has a retry pending or in progress that no client request has
\* overtaken: it sleeps for the retry delay of the registered session, it
\* stops the processes of the registered session, or it has removed the
\* registry entries and nothing has been registered or requested since.
RetryUnderWay(k) ==
    LET s == mon[k].stream IN
    \/ mon[k].pc = "delay" /\ sessions[s] = mon[k].sess
    \/ mon[k].pc \in {"r_term_dec", "r_term_ff"} /\ sessions[s] = mon[k].target
    \/ /\ mon[k].pc \in {"r_pause", "r_conn"}
       /\ sessions[s] = 0
       /\ \A i \in DOMAIN reqs : reqs[i].stream # s

(***************************************************************************)
(* Properties.                                                             *)
(***************************************************************************)
\* C1: once a stop has been served while the monitor of the stopped session
\* was waiting out its retry delay, and as long as no client request for the
\* stream has been made since, the stream has no session and no
\* active_streams entry: no process is spawned, nothing enters Starting.
C1_StopCancelsPendingRestart ==
    \A s \in StreamIds :
        hist[s].stop_mid_delay => sessions[s] = 0 /\ ~ active_streams[s].present

\* C2: whenever the classifier's result is one of the categories
\* forbidden/403, not-found/404, permission-denied, disk-full or
\* missing-decoder, the retry decision is "do not retry", for every restart
\* count.
C2_NonRetryableNeverRetried ==
    (probe.stage = "decided" /\ probe.analysis \in NonRetryableCategories)
        => ~ probe.retry

\* C3: a monitor goes from its liveness check to the retry delay on a
\* network-class failure only if the session's restart count was below 2.
C3_NetworkRetryCap ==
    [][\A k \in DOMAIN mon :
          (/\ mon[k].pc = "settle"
           /\ mon'[k].pc = "delay"
           /\ IsNetworkClass(gen'[mon[k].sess].error))
          => gen[mon[k].sess].restart_count < 2]_vars

\* A monitor has given up on a network-class failure of a session whose
\* restart count was 2.
C3_Witness ==
    \E g \in DOMAIN gen :
        gen[g].gaveup /\ IsNetworkClass(gen[g].error) /\ gen[g].restart_count = 2

\* C4: the restart count of every session is in 0..3 and no more than 3
\* automatic restarts are performed for a stream since the last client
\* request that started or stopped it.
C4_RestartBudget ==
    /\ \A g \in DOMAIN gen : gen[g].restart_count \in 0..max_restarts
    /\ \A s \in StreamIds : hist[s].restarts <= max_restarts

\* C5: when the monitor of the registered session has given up (error not
\* retryable or restarts exhausted), the status reported for the stream is
\* Failed.
C5_GivenUpReportsFailed ==
    \A s \in StreamIds :
        (Registered(s) /\ gen[sessions[s]].gaveup) => StatusReport(s).status = "failed"

\* C6: while a retry is pending or in progress for a stream, the status
\* query reports Error.
C6_RetryReportsError ==
    \A k \in DOMAIN mon :
        RetryUnderWay(k) => StatusReport(mon[k].stream).status = "error"

\* C7: when the transcoder of the registered session has exited, either the
\* session is in Error status or a monitor task has still to look at it.
C7_ExitIsObserved ==
    \A s \in StreamIds :
        (Registered(s) /\ gen[sessions[s]].ff = "exited")
            => \/ gen[sessions[s]].status = "error"
               \/ Watchers(s, sessions[s]) # {}

\* C8: a session registered for a stream whose license key is a ClearKey
\* credential <key_id_hex>:<key_hex> has method DecryptPipe and owns a
\* decrypt process and a transcoder.
C8_ClearKeySelectsPipe ==
    \A s \in StreamIds :
        (Registered(s) /\ IsClearKeyCredential(config[s].license_key))
            => /\ gen[sessions[s]].method = "decryption_pipe"
               /\ gen[sessions[s]].dec # "none"
               /\ gen[sessions[s]].ff # "none"

\* C9: every process group spawned for a stream without license key (none or
\* empty) is one transcoder and no decrypt process, and its session has
\* method Direct.
C9_NoKeySelectsDirect ==
    \A g \in DOMAIN gen :
        ~ Truthy(config[gen[g].stream].license_key)
            => /\ gen[g].method = "ffmpeg_direct"
               /\ gen[g].dec = "none"
               /\ gen[g].ff # "none"

\* A Direct session of a stream with an empty license key is registered and
\* has reached Running.
C9_Witness ==
    \E s \in StreamIds :
        /\ Registered(s)
        /\ config[s].license_key = PyStr(<<>>)
        /\ gen[sessions[s]].method = "ffmpeg_direct"
        /\ gen[sessions[s]].status = "running"

\* C10: when the decrypt process of the registered DecryptPipe session has
\* exited while its transcoder is alive, either the session is in Error
\* status or a monitor task has still to look at it.
C10_DecryptExitIsObserved ==
    \A s \in StreamIds :
        (/\ Registered(s)
         /\ gen[sessions[s]].method = "decryption_pipe"
         /\ gen[sessions[s]].dec = "exited"
         /\ Alive(gen[sessions[s]].ff))
            => \/ gen[sessions[s]].status = "error"
               \/ Watchers(s, sessions[s]) # {}

\* C11: every step of handle_stop_stream for a stream with a registered
\* session leaves the processes of that session not alive, the output
\* directory of the stream absent and the stream id out of the session
\* registry, whatever method and status the session has.
C11_StopDestroysSession ==
    [][\A s \in StreamIds :
          (Registered(s) /\ HandleStop(s, StopScope))
          => /\ ~ Alive(gen'[sessions[s]].dec)
             /\ ~ Alive(gen'[sessions[s]].ff)
             /\ ~ dirs'[s].exists
             /\ sessions'[s] = 0]_vars

\* C12: a step of handle_stop_stream for a stream id without registered
\* session changes no registry, no session or process, no monitor task, no
\* directory and no pending request, and its response differs from the
\* response to a stop that succeeded and to a stop that failed; the stop of a
\* registered session never gets the HTTP status of that response.
C12_StopWithoutSessionIsNoOp ==
    [][\A s \in StreamIds :
          HandleStop(s, StopScope)
          => IF ~ Registered(s)
             THEN /\ UNCHANGED <<config, sessions, active_streams, gen, mon, dirs, reqs>>
                  /\ hist'[s].stop_reply \notin {NoReply, StopSucceeded, StopFailed}
             ELSE hist'[s].stop_reply.code
                    \notin {NoReply.code, StopNotRunning.code}]_vars

\* A stream that was started and stopped gets a second stop request, and a
\* stream id that is not configured gets one.
C12_Witness ==
    /\ \E s \in StreamIds :
         /\ Configured(s)
         /\ ~ Registered(s)
         /\ hist[s].stop_reply = StopNotRunning
         /\ \E g \in DOMAIN gen : gen[g].stream = s
    /\ \E s \in StreamIds :
         ~ Configured(s) /\ hist[s].stop_reply = StopNotRunning

\* C13: in behaviours without stop request, no step takes the restart count
\* of the session registered for a stream from a value to a smaller one.
C13_RestartCountNeverDecreases ==
    [][\A s \in StreamIds :
          (Registered(s) /\ sessions'[s] # 0)
          => gen'[sessions'[s]].restart_count >= gen[sessions[s]].restart_count]_vars

\* The classifications connection reset, connection refused and timeout.
ConnectionTimeoutCategories ==
    {Msg.ConnReset, Msg.ConnRefused, Msg.Timeout}

\* C14: for a connection or timeout classification the delay computed for
\* restart count n >= 1 is min(5 * 2^(n-1), 30): 5, 10, 20, 30 for n = 1, 2,
\* 3, 4, never more than 30, and no smaller than the delay of any smaller
\* restart count.
C14_NetworkBackoff ==
    (probe.stage = "decided" /\ probe.analysis \in ConnectionTimeoutCategories)
        => LET n == probe.restarts + 1 IN
           /\ probe.delay = (IF 5 * 2^(n - 1) < 30 THEN 5 * 2^(n - 1) ELSE 30)
           /\ probe.delay <= 30
           /\ n <= 4 => probe.delay = <<5, 10, 20, 30>>[n]
           /\ \A m \in 1..n : get_retry_delay(probe.analysis, m) <= probe.delay

\* The delay of a timeout at restart count 4 has been computed: 30, not 40.
C14_Witness ==
    /\ probe.stage = "decided"
    /\ probe.analysis = Msg.Timeout
    /\ probe.restarts + 1 = 4
    /\ probe.delay = 30

\* The classification "unknown error (code: <n>)".
IsUnknownError(msg) ==
    /\ Len(msg) >= Len(Msg.UnknownPrefix)
    /\ SubSeq(msg, 1, Len(Msg.UnknownPrefix)) = Msg.UnknownPrefix

\* C15: the delay computed from a server-error/500 or TLS/SSL classification
\* is 10, and the delay computed from a corrupt-data, decryption-failure or
\* unknown-error classification is 5, at every restart count.
C15_FlatDelays ==
    probe.stage = "decided"
        => /\ probe.analysis \in {Msg.ServerError, Msg.Tls} => probe.delay = 10
           /\ (probe.analysis \in {Msg.Corrupt, Msg.Decryption} \/ IsUnknownError(probe.analysis))
                 => probe.delay = 5

\* The pattern groups in the order connection-reset, connection-refused,
\* timeout, forbidden/403, not-found/404, server-error/500, TLS/SSL,
\* corrupt/invalid-data, missing-decoder, decryption, permission-denied,
\* disk-full, each with the classification of its category.
PriorityOrder ==
    << [pats |-> {P.connection_reset_by_peer}, msg |-> Msg.ConnReset],
       [pats |-> {P.connection_refused}, msg |-> Msg.ConnRefused],
       [pats |-> {P.timeout, P.timed_out}, msg |-> Msg.Timeout],
       [pats |-> {P.code_403, P.forbidden}, msg |-> Msg.Forbidden],
       [pats |-> {P.code_404, P.not_found}, msg |-> Msg.NotFound],
       [pats |-> {P.code_500, P.internal_server_error}, msg |-> Msg.ServerError],
       [pats |-> {P.ssl, P.tls}, msg |-> Msg.Tls],
       [pats |-> {P.invalid_data, P.corrupt}, msg |-> Msg.Corrupt],
       [pats |-> {P.no_decoder}, msg |-> Msg.NoDecoder],
       [pats |-> {P.decryption}, msg |-> Msg.Decryption],
       [pats |-> {P.permission_denied}, msg |-> Msg.Permission],
       [pats |-> {P.disk_full, P.no_space}, msg |-> Msg.DiskFull] >>

\* The categories of which a pattern occurs in the lower-cased text.
MatchedCategories(output) ==
    {i \in DOMAIN PriorityOrder : \E pat \in PriorityOrder[i].pats : Contains(pat, Lower(output))}

\* The catch-all classifications, which carry the exit code: "unknown error"
\* for a text without pattern, "exited abnormally" where nothing was captured.
CatchAll(output, return_code) ==
    (IF output = <<>> THEN Msg.ExitedPrefix ELSE Msg.UnknownPrefix)
        \o CodeText(return_code) \o <<")">>

StuckStarting(g) ==
    /\ g \in DOMAIN gen
    /\ sessions[gen[g].stream] = g
    /\ gen[g].status = "starting"

\* C17: a registered session in Starting status leaves that status (or the
\* registry) at some later time, whether or not its transcoder is alive and
\* a playlist has been written.
C17_StartingEnds ==
    \A g \in 1..MaxLiveGens : StuckStarting(g) ~> ~ StuckStarting(g)

\* C18: when create_hls_stream, called for a client request for a stream
\* whose license key selects the decryption pipe, cannot start the decrypt
\* process (Popen raises, nothing is spawned), the stream is registered with
\* a session all the same.
C18_FallbackOnPipeFailure ==
    [][\A s \in StreamIds :
          (/\ use_pipe(config[s].license_key)
           /\ hist[s].create_error # Msg.NoSuchFile
           /\ hist'[s].create_error = Msg.NoSuchFile
           /\ Len(gen') = Len(gen))
          => sessions'[s] # 0]_vars

\* C19: a session whose monitor has given up (error not retryable, or
\* restarts exhausted) is not the registered session of its stream and has
\* no live process, so that handle_start_stream accepts the stream id.
C19_GivenUpIsDestroyed ==
    \A g \in DOMAIN gen :
        gen[g].gaveup
            => /\ sessions[gen[g].stream] # g
               /\ ~ Alive(gen[g].dec)
               /\ ~ Alive(gen[g].ff)

\* C20: the step in which the connectivity check of an automatic restart
\* fails leaves the stream reported with status Failed and with the raised
\* error recorded in its active_streams entry.
C20_RestartErrorReportsFailed ==
    [][\A k \in DOMAIN mon :
          MonitorRestartConnFail(k)
          => /\ StatusReport(mon[k].stream)'.status = "failed"
             /\ active_streams'[mon[k].stream].error = Msg.NoConnect]_vars

\* The bytes a text of hexadecimal digits stands for, two digits a byte.
HexDecode(text) ==
    [i \in 1..(Len(text) \div 2) |->
       CHOOSE b \in 0..255 :
         /\ HexDigits[(b \div 16) + 1] = LowerChar(text[2 * i - 1])
         /\ HexDigits[(b % 16) + 1] = LowerChar(text[2 * i])]

IsEvenHex(text) ==
    /\ Len(text) % 2 = 0
    /\ \A i \in 1..Len(text) : text[i] \in HexChars

\* C21: a parsed credential 'A:B' with A and B hexadecimal of even length is
\* a key id and a key that are the bytes of A and of B; a text without colon
\* makes the parser report an error; no parser result has a key without a
\* key id or a key id without a key.
C21_CredentialParsing ==
    probe.stage = "parsed"
        => LET colon == Find(":", probe.text)
               a == SubSeq(probe.text, 1, colon - 1)
               b == SubSeq(probe.text, colon + 1, Len(probe.text))
               r == probe.result
           IN  /\ (colon # 0 /\ IsEvenHex(a) /\ IsEvenHex(b))
                    => /\ r.kind = "dict"
                       /\ r.entries = {"key_id", "key"}
                       /\ r.type = "bytes"
                       /\ r.key_id = HexDecode(a)
                       /\ r.key = HexDecode(b)
               /\ colon = 0 => r.kind = "raised"
               /\ r.kind = "dict" => r.entries \in {{}, {"key_id", "key"}}

\* The media segments among the descriptors of a parsed timeline.
MediaOf(segments) ==
    SelectSeq(segments, LAMBDA seg : seg.type = "media")

\* What an <S> element counts for: its r attribute, 0 when absent, plus one.
EntryCount(s_elem) ==
    (IF s_elem.r.some THEN PyInt(s_elem.r.text) ELSE 0) + 1

RECURSIVE CountBefore(_, _)
CountBefore(timeline, i) ==
    IF i = 1 THEN 0 ELSE CountBefore(timeline, i - 1) + EntryCount(timeline[i - 1])

ExampleTimeline ==
    <<[d |-> PyStr(<<"2">>), r |-> PyStr(<<"2">>)], [d |-> PyStr(<<"3">>), r |-> PyNoneStr]>>

\* C22: of a parsed SegmentTimeline, the i-th <S> entry with repeat r
\* (absent: 0) stands for exactly r+1 media segments, following those of the
\* entries before it, each with that entry's duration; the media segments are
\* numbered 1, 2, 3, ... in that order; <S d=2 r=2><S d=3> gives the numbers
\* 1,2,3,4 with the durations 2,2,2,3.
C22_TimelineSegments ==
    probe.stage = "segments"
        => LET media == MediaOf(probe.segments)
               timeline == probe.timeline
           IN  /\ Len(media) = CountBefore(timeline, Len(timeline) + 1)
               /\ \A i \in 1..Len(timeline) :
                    \A k \in 1..EntryCount(timeline[i]) :
                      media[CountBefore(timeline, i) + k].duration
                          = (IF timeline[i].d.some THEN PyInt(timeline[i].d.text) ELSE 0)
               /\ \A n \in 1..Len(media) : media[n].number = n
               /\ timeline = ExampleTimeline
                    => /\ [n \in 1..Len(media) |-> media[n].number] = <<1, 2, 3, 4>>
                       /\ [n \in 1..Len(media) |-> media[n].duration] = <<2, 2, 2, 3>>

C22_Witness ==
    /\ probe.stage = "segments"
    /\ probe.timeline = ExampleTimeline
    /\ Len(MediaOf(probe.segments)) = 4
    /\ Truthy(probe.init_template)

\* The bytes _decrypt_segments has to write for a descriptor.
SegmentBytes(segment, key) ==
    IF segment.type = "media"
    THEN decrypt_segment(ServedBody(segment.url), key)
    ELSE ServedBody(segment.url)

RECURSIVE InListOrder(_, _, _)
InListOrder(segments, n, key) ==
    IF n = 0 THEN <<>>
    ELSE InListOrder(segments, n - 1, key) \o SegmentBytes(segments[n], key)

\* C23: the output file of a track holds the bytes of the segments handled so
\* far in the order of the descriptor list, and a second decryption of the
\* same stream with the same key that returns after a first one that
\* returned leaves every output file with the bytes the first one left.
C23_OrderedAndRepeatable ==
    /\ probe.stage = "segments"
         => probe.files[probe.track].bytes
              = InListOrder(Segments(probe, probe.track), probe.pos - 1, probe.key)
    /\ probe.stage = "returned"
         => \A track \in probe.returned :
              probe.files[track].bytes
                = InListOrder(Segments(probe, track), Len(Segments(probe, track)), probe.key)
    /\ (probe.stage = "returned" /\ probe.previous.stage = "returned")
         => \A track \in {"video", "audio"} :
              probe.files[track].bytes = probe.previous.files[track].bytes

C23_Witness ==
    /\ probe.stage = "returned"
    /\ probe.run = 2
    /\ probe.previous.stage = "returned"
    /\ probe.returned = {"video", "audio"}
    /\ Len(probe.files["video"].bytes) > 2
    /\ probe.license_key = Key16a

\* C24: a segment download that failed is the last download of the call:
\* the call has raised, the track's file has the writes of the segments
\* before the failed one and no more, and the caller has got no file path,
\* not for this track and not for a track decrypted before it.
C24_FailedDownloadFailsAll ==
    \A i \in 1..Len(probe.log) :
      probe.log[i].status # 200
        => /\ i = Len(probe.log)
           /\ probe.stage = "raised"
           /\ probe.returned = {}
           /\ probe.files[probe.log[i].track].writes = probe.log[i].index - 1

C24_Witness ==
    /\ probe.stage = "raised"
    /\ probe.log # <<>>
    /\ probe.log[Len(probe.log)].status # 200
    /\ probe.log[Len(probe.log)].track = "audio"
    /\ probe.results = {"video"}
    /\ probe.files["video"].writes = 3

\* C25: a step of the monitor task launched for generation k of a stream,
\* which went to sleep holding the session of generation k, taken while
\* another generation n of that stream is the registered session, leaves
\* generation n registered, leaves its session record and its processes as
\* they are, and leaves the stream's status entry as it is.
C25_MonitorKeepsToItsGeneration ==
    [][\A k \in DOMAIN mon :
         MonitorStep(k, Scope)
           => LET s == mon[k].stream
                  n == sessions[s]
              IN  (n # 0 /\ n # k /\ mon[k].sess = k)
                    => /\ sessions'[s] = n
                       /\ gen'[n] = gen[n]
                       /\ active_streams'[s] = active_streams[s]]_vars

\* C26: a restart during which a stop request for its stream was answered
\* (while the restart waited after signalling the old processes, paused after
\* removing the session record, or checked connectivity) registers no session
\* and spawns no process afterwards.
C26_StopEndsRestart ==
    [][\A k \in DOMAIN mon :
         (MonitorStep(k, StopScope) /\ k \in hist[mon[k].stream].stopped_restarts)
           => /\ Len(gen') = Len(gen)
              /\ sessions'[mon[k].stream] = 0]_vars

\* Some process of a session has neither exited nor been signalled.
Unsignalled(g) ==
    g.dec = "alive" \/ g.ff = "alive"

\* The awaits of a restart.
RestartPcs ==
    {"r_term_dec", "r_term_ff", "r_pause", "r_conn"}

\* C27: in every step of a monitor (the steps that change its record), the
\* monitor enters a restart only from the sleep for the retry delay,
\* which was computed by the retry policy from the recorded error and restart
\* count; it removes the session record only when every process of that
\* session has exited or has been signalled (the session being the one whose
\* processes the restart dealt with); it checks connectivity only after the
\* pause that follows the removal, and it spawns only after that check.
C27_RestartOrder ==
    [][\A k \in DOMAIN mon :
         mon'[k] # mon[k]
           => LET s == mon[k].stream
                  t == sessions[s]
              IN  /\ (mon[k].pc \notin RestartPcs /\ mon'[k].pc \in RestartPcs)
                       => mon[k].pc = "delay"
                  /\ (mon[k].pc # "delay" /\ mon'[k].pc = "delay")
                       => mon'[k].delay = get_retry_delay(gen'[mon'[k].sess].error,
                                                          gen'[mon'[k].sess].restart_count)
                  /\ (mon[k].pc # "r_pause" /\ mon'[k].pc = "r_pause")
                       => /\ sessions'[s] = 0
                          /\ (t # 0 /\ (mon[k].pc = "delay" \/ mon[k].target = t))
                               => ~ Unsignalled(gen'[t])
                  /\ mon'[k].pc = "r_conn" => mon[k].pc = "r_pause"
                  /\ Len(gen') > Len(gen) => mon[k].pc = "r_conn"]_vars

C27_Witness ==
    \E s \in StreamIds :
      /\ sessions[s] = 2
      /\ hist[s].restarts = 1
      /\ gen[2].restart_count = 1
      /\ gen[2].method = "decryption_pipe"
      /\ gen[1].dec = "exited"
      /\ gen[1].ff = "exited"
      /\ mon[1].pc = "end"

\* C28: the step in which a start request's create_hls_stream returns
\* without an exception leaves a session registered for the stream with
\* status starting and restart count 0, and has launched one monitor task,
\* which is the monitor of that generation and has not run yet; the step
\* does not depend on the playlist being there.
C28_StartReturnsStarting ==
    [][\A i \in DOMAIN reqs :
         (/\ ReqConnectOk(i, PipeScope)
          /\ reqs[i].kind = "start"
          /\ hist'[reqs[i].stream].create_error = <<>>)
           => LET s == reqs[i].stream
                  n == sessions'[s]
              IN  /\ n = Len(gen) + 1
                  /\ Len(gen') = n
                  /\ gen'[n].stream = s
                  /\ gen'[n].status = "starting"
                  /\ gen'[n].restart_count = 0
                  /\ active_streams'[s].present
                  /\ active_streams'[s].status = "starting"
                  /\ DOMAIN mon' \ DOMAIN mon = {n}
                  /\ mon'[n].stream = s
                  /\ mon'[n].pc = "init"
                  /\ dirs'[s].playlist = dirs[s].playlist]_vars

C28_Witness ==
    \E s \in StreamIds :
      /\ sessions[s] = Len(gen)
      /\ sessions[s] # 0
      /\ gen[sessions[s]].status = "starting"
      /\ mon[sessions[s]].pc = "init"
      /\ reqs = <<>>
      /\ hist[s].create_error = <<>>
      /\ ~ dirs[s].playlist

\* The status of the stream's session as the registry has it.
HasStatus(active, status) ==
    active.present /\ active.status = status

\* C29: the status of a stream's session becomes running only in a step of a
\* monitor that holds the registered session, found its processes alive after
\* the settle delay and now sees the playlist in the output directory, and
\* only when the status was starting before.
C29_RunningOnlyAfterChecks ==
    [][\A s \in StreamIds :
         (HasStatus(active_streams'[s], "running") /\ ~ HasStatus(active_streams[s], "running"))
           => /\ \E k \in DOMAIN mon :
                   /\ mon[k].stream = s
                   /\ mon[k].pc = "playlist_wait"
                   /\ mon'[k].pc = "end"
                   /\ mon[k].sess = sessions[s]
                   /\ dirs[s].playlist
              /\ HasStatus(active_streams[s], "starting")]_vars

\* C30: the supervisor holds no open handle on the pipe between the decrypt
\* process and the transcoder of any pipe session it has started, whatever
\* has become of the session and its processes since.
C30_PipeHandleClosed ==
    \A g \in DOMAIN gen :
      (gen[g].held /\ gen[g].method = "decryption_pipe") => gen[g].pipe = "closed"

C30_Witness ==
    \E s \in StreamIds :
      /\ sessions[s] # 0
      /\ gen[sessions[s]].method = "decryption_pipe"
      /\ gen[sessions[s]].pipe = "closed"
      /\ gen[sessions[s]].dec = "exited"
      /\ gen[sessions[s]].ff = "alive"

\* A client request of kind start whose create_hls_stream raises in this
\* step, for a stream that has no registered session.
StartFails(i, scope) ==
    /\ i \in DOMAIN reqs
    /\ reqs[i].kind = "start"
    /\ sessions[reqs[i].stream] = 0
    /\ ReqConnectFail(i, scope) \/ ReqConnectOk(i, scope)
    /\ hist'[reqs[i].stream].create_error # <<>>

\* C31: the step in which the create_hls_stream of a start request raises
\* (the connectivity check fails or a Popen raises), for a stream that has no
\* registered session, leaves neither registry with an entry for the stream,
\* launches no monitor task and leaves the monitor tasks there are as they
\* were: nothing is scheduled to try the start again.
C31_FailedStartLeavesNothing ==
    [][\A i \in 1..MaxReqs :
         StartFails(i, PipeScope)
           => LET s == reqs[i].stream IN
              /\ sessions'[s] = 0
              /\ ~ active_streams'[s].present
              /\ \A k \in DOMAIN mon' :
                   IF k \in DOMAIN mon THEN mon'[k] = mon[k] ELSE mon'[k].pc = "end"]_vars

\* The second Popen of a start request has raised: the stream has no entry and
\* no monitor, the decrypt process that was spawned first is all there is.
C31_Witness ==
    /\ hist["s1"].create_error = Msg.NoSuchFile
    /\ sessions["s1"] = 0
    /\ ~ active_streams["s1"].present
    /\ Len(gen) = 1
    /\ ~ gen[1].held
    /\ gen[1].ff = "none"
    /\ mon[1].pc = "end"
    /\ reqs = <<>>

\* The age of the session registered for stream s, in seconds.
Age(s) ==
    Clock - gen[sessions[s]].created_at

\* C32: a run of cleanup_old_sessions ends with every session that was older
\* than 3600 s removed from the registry, its processes no longer running
\* and its output directory deleted, and with the session, the processes and
\* the output directory of every other stream as they were.
C32_SweepRemovesExactlyStale ==
    [][cleanup_old_sessions(SweepScope)
         => \A s \in StreamIds :
              IF Registered(s) /\ Age(s) > StaleAfter
              THEN /\ sessions'[s] = 0
                   /\ ~ Alive(gen'[sessions[s]].dec)
                   /\ ~ Alive(gen'[sessions[s]].ff)
                   /\ ~ dirs'[s].exists
              ELSE /\ sessions'[s] = sessions[s]
                   /\ Registered(s) => gen'[sessions[s]] = gen[sessions[s]]
                   /\ dirs'[s] = dirs[s]]_vars

\* A step of a start request, a stop request, a monitor or a restart for
\* stream a.
StepFor(a, scope) ==
    \/ HandleStartBegin(a, scope)
    \/ HandleStop(a, scope)
    \/ \E i \in DOMAIN reqs : reqs[i].stream = a /\ RequestStep(i, scope)
    \/ \E k \in DOMAIN mon : mon[k].stream = a /\ MonitorStep(k, scope)

\* What the program holds for stream b is the same after the step: registry
\* entries, session objects with status, restart count and processes, output
\* directory.
Untouched(b) ==
    /\ sessions'[b] = sessions[b]
    /\ active_streams'[b] = active_streams[b]
    /\ dirs'[b] = dirs[b]
    /\ \A g \in DOMAIN gen : gen[g].stream = b => gen'[g] = gen[g]

\* C33: a step of a start request, a stop request, a monitor or a restart for
\* one stream leaves the registry entries, the session objects with their
\* status, restart count and processes, and the output directory of every
\* other stream as they were: a step that changes any of these for stream b
\* is not a step for another stream a.
C33_StreamsAreIndependent ==
    [][\A b \in StreamIds : \A a \in StreamIds \ {b} :
         ~ Untouched(b) => ~ StepFor(a, SweepScope)]_vars

\* One stream has been restarted and then stopped while the other one was
\* running all along.
C33_Witness ==
    \E a \in StreamIds, b \in StreamIds :
      /\ a # b
      /\ sessions[a] = 0
      /\ ~ dirs[a].exists
      /\ sessions[b] # 0
      /\ gen[sessions[b]].status = "running"
      /\ gen[sessions[b]].ff = "alive"
      /\ dirs[b].playlist
      /\ \E g \in DOMAIN gen : gen[g].stream = a /\ gen[g].ff = "exited"

\* The sequence numbers of the media segments written to a file, in the order
\* in which they were written.
RECURSIVE MediaNumbers(_)
MediaNumbers(file) ==
    IF file = <<>> THEN <<>>
    ELSE (IF Head(file).type = "media" THEN <<Head(file).number>> ELSE <<>>)
         \o MediaNumbers(Tail(file))

\* C34: at every moment of the decryption of a manifest, the sequence numbers
\* of the media segments written so far to the video file, and likewise to
\* the audio file, never go down from one segment to the next.
C34_TrackIsMonotonic ==
    probe.stage \in {"mpd", "video", "audio", "done"}
      => \A track \in {"video", "audio"} :
           LET numbers == MediaNumbers(probe.files[track])
           IN  \A i \in 1..(Len(numbers) - 1) : numbers[i] <= numbers[i + 1]

\* The segments that the Representations of an AdaptationSet stand for, in
\* the order of the Representations.
RECURSIVE SetSegments(_, _)
SetSegments(representations, adaptation_set) ==
    IF representations = <<>> THEN <<>>
    ELSE RepresentationSegments(Head(representations), adaptation_set, BaseUrl)
         \o SetSegments(Tail(representations), adaptation_set)

MentionsWord(word, adaptation_set) ==
    Contains(word, adaptation_set.contentType) \/ Contains(word, adaptation_set.mimeType)

\* C35: once a manifest is parsed, every segment of every AdaptationSet is in
\* the list of video segments if 'video' occurs in the contentType or the
\* mimeType of the set, else in the list of audio segments if 'audio' occurs
\* in one of them, and in the list of video segments if neither occurs.
C35_ClassifiedOrVideo ==
    probe.stage \in {"video", "audio", "done"}
      => \A i \in DOMAIN probe.mpd :
           LET adaptation_set == probe.mpd[i]
               segments == SetSegments(adaptation_set.representations, adaptation_set)
               track == IF MentionsWord(VideoWord, adaptation_set) THEN probe.media_info.video_segments
                        ELSE IF MentionsWord(AudioWord, adaptation_set)
                             THEN probe.media_info.audio_segments
                             ELSE probe.media_info.video_segments
           IN  \A j \in DOMAIN segments : \E n \in DOMAIN track : track[n] = segments[j]

\* The URL of media segment number n of representation rep_id under the
\* template seg-$RepresentationID$-$Number$.m4s.
UrlFor(rep_id, n) ==
    BaseUrl \o <<"s","e","g","-">> \o rep_id \o <<"-">> \o IntToStr(n) \o <<".","m","4","s">>

PlaceholderFree(url) ==
    ~ Contains(RepresentationIDVar, url) /\ ~ Contains(NumberVar, url)

\* C37: every media segment that either parser has built from the manifest
\* has a URL without placeholder, which is the template with the id of the
\* segment's representation and the segment's own sequence number in it.
C37_PlaceholdersReplaced ==
    /\ probe.stage \in {"video", "audio", "done"}
         => \A list \in {probe.media_info.video_segments, probe.media_info.audio_segments} :
              \A j \in DOMAIN list :
                list[j].type = "media"
                  => /\ PlaceholderFree(list[j].url)
                     /\ list[j].url = UrlFor(list[j].representation_id, list[j].number)
    /\ (probe.stage \in {"mpd", "video", "audio", "done"} /\ probe.dash.parsed)
         => \A j \in DOMAIN probe.dash.segments :
              /\ PlaceholderFree(probe.dash.segments[j].url)
              /\ \E a \in DOMAIN probe.mpd : \E r \in DOMAIN probe.mpd[a].representations :
                   probe.dash.segments[j].url
                     = UrlFor(probe.mpd[a].representations[r].id, probe.dash.segments[j].number)

\* C36: in a round of the loop of _decrypt_segments whose download succeeds,
\* an init segment is appended to the track's file as it was downloaded; a
\* media segment that AES can decrypt is appended decrypted, with or without
\* its padding removed, and the track goes on; a media segment that AES
\* cannot decrypt ends the track with an error and nothing is appended.
C36_UndecryptedNeverWritten ==
    [][DecryptSegment
         => LET track == probe.track
                segment == Segments(probe, track)[probe.pos]
                body == ServedBody(segment.url)
                before == probe.files[track].bytes
                after == probe'.files[track].bytes
            IN  probe'.log[Len(probe'.log)].status = 200
                  => IF segment.type = "init"
                     THEN after = before \o body
                     ELSE IF AesAccepts(body, probe.key)
                     THEN /\ probe'.stage # "raised"
                          /\ after \in {before \o CbcDecrypt(body, probe.key),
                                        before \o Unpadded(CbcDecrypt(body, probe.key))}
                     ELSE /\ probe'.stage = "raised"
                          /\ after = before]_vars

\* C38: when the decrypt tool has exited in pipe mode, its exit status is 0
\* exactly if the downloader was started, every chunk the downloader wrote
\* was forwarded to standard output without a failing write, and the
\* downloader's own status was 0; in every other case it is not 0.
C38_ToolExitStatus ==
    (probe.stage = "tool" /\ probe.pc = "exited")
      => (probe.exit_status = 0
            <=> /\ probe.started
                /\ probe.forwarded = probe.chunks
                /\ ~ probe.write_failed
                /\ probe.returncode = 0)

\* The downloader was started, wrote all its chunks, each of which was
\* forwarded, and exited with 0: the status of the tool is 0.
C38_Witness ==
    /\ probe.stage = "tool"
    /\ probe.pc = "exited"
    /\ probe.started
    /\ probe.chunks = MaxChunks
    /\ probe.forwarded = MaxChunks
    /\ ~ probe.write_failed
    /\ probe.returncode = 0
    /\ probe.exit_status = 0

\* C39: every process that runs and has not been sent a signal belongs to the
\* session that is registered under its stream id at that moment.
C39_OneLiveGeneration ==
    \A g \in DOMAIN gen : \A which \in {"dec", "ff"} :
      gen[g][which] = "alive" => sessions[gen[g].stream] = g

\* C40: every stream that has an entry in active_streams has a session in
\* sessions, and the two carry the same status; a stream without a session is
\* reported as stopped by the status and the list requests.
C40_RegistriesAgree ==
    \A s \in StreamIds :
      /\ active_streams[s].present
           => /\ sessions[s] # 0
              /\ gen[sessions[s]].status = active_streams[s].status
      /\ sessions[s] = 0 => StatusReport(s).status = "stopped"

====
